---- MODULE Spec2Model ----
(***************************************************************************)
(* The zone scheduling and cycling engine of the smart_sprinklers          *)
(* integration (src/zone_control, src/coordinator.py, src/services.py,     *)
(* src/weather.py) as a state machine.                                     *)
(*                                                                         *)
(* The program is asyncio code: a handler runs without interruption until  *)
(* it awaits something that really suspends.  The suspension points are    *)
(* the blocking actuator calls (switch.turn_on / switch.turn_off) and a    *)
(* contended acquire of the process-queue lock; asyncio.create_task makes  *)
(* a task that starts later.  Every action below is one such uninterrupted *)
(* stretch of a handler.  Timers made with async_call_later are kept in    *)
(* `timers`; a handle's `.data` is the zone id the timer was made for.     *)
(*                                                                         *)
(* The algorithms of src/algorithms (calculate_watering_duration and the   *)
(* AbsorptionLearner) are operators; SpecDuration and SpecLearner call     *)
(* them on their own, with arguments drawn from small sets.  The zone      *)
(* machine waters with the default absorption rate of a learner that has   *)
(* no sample.                                                              *)
(***************************************************************************)
EXTENDS Integers, Sequences, FiniteSets, TLC

\* ---- bounds of the model ------------------------------------------------
NumZones == 2
MaxTasks == 1
MaxFaults == 1
MaxStops == 1
MaxStarts == 3
MaxCalls == 3
MaxRuns == 2
MaxDeficit == 60

\* ---- configuration and program constants --------------------------------
MIN_MOISTURE == 20
DEFAULT_FREEZE_THRESHOLD == 36
MAX_MOISTURE == 25
CYCLE_TIME == 15
DEFAULT_MAX_WATERING_MINUTES == 20
DEFICIT_THRESHOLD == 5
DEFAULT_RATE_CENTI == 50
DEFAULT_ET == 5
MAX_DATA_POINTS == 100         \* add_data_point keeps the last 100 samples
MAX_VALID_RATE == 5            \* AbsorptionLearner._max_valid_rate, %/min
CONFIDENCE_POINTS == 20        \* get_confidence: max_confidence_points
DECAY_MILLI == 741             \* get_rate: exp(-alpha) for alpha = 0.3, in 1/1000

None == 0
Zones == 1..NumZones

\* Sensor inputs: a moisture reading in percent, or no usable state.
NoReading == -1
Readings == {15, 25}
MoistureInputs == Readings \cup {NoReading}

\* The configured zone["max_watering_time"]: the first zone may water for two cycles, the others
\* keep the default and get one
ZoneTimes ==
    [z \in Zones |-> IF z = 1 THEN 2 * CYCLE_TIME ELSE DEFAULT_MAX_WATERING_MINUTES]

VARIABLES
    zstate,                  \* zone["state"]
    cycle_count,             \* zone["cycle_count"]
    current_cycle,           \* zone["current_cycle"]
    pre_watering_moisture,   \* zone["pre_watering_moisture"]
    moisture_deficit,        \* zone["moisture_deficit"], in tenths of a millimetre
    last_reading,            \* zone["moisture_history"][-1]["value"], NoReading when the history is empty
    active_zone,             \* controller.active_zone
    soaking_zones,           \* keys of controller.soaking_zones
    zone_queue,              \* controller.zone_queue
    queue_processing_active, \* coordinator._queue_processing_active
    shutdown_requested,      \* coordinator._shutdown_requested
    system_enabled,          \* coordinator._system_enabled
    stop_requested,          \* controller._stop_requested
    schedule,                \* the schedule entity: "none" (not configured), "on", "off", "unavail"
    valve,                   \* the switch of each zone: "on", "off", or "stuck" (on, and an
                             \* off-command for it has raised since)
    timers,                  \* pending async_call_later callbacks: [kind, zone, tracked]
    pq_tasks,                \* process_queue tasks created and not yet started
    waiters,                 \* process_queue tasks waiting for _process_queue_lock
    runner,                  \* the process_queue invocation holding _process_queue_lock
    ce,                      \* handle_cycle_end invocations suspended in an actuator call
    stops,                   \* stop_all_watering callers suspended in an actuator call
    faults,                  \* injected actuator / timer-scheduling failures so far
    stop_calls,              \* stop_all_watering calls made by disable_system and the scheduler
    starts,                  \* zones handed to start_zone_cycle so far
    data_points,             \* AbsorptionLearner._data_points of one learner, oldest first
    call,                    \* the last call made to the algorithms: its arguments and result
    max_watering_time,       \* zone["max_watering_time"] of each zone, in minutes
    ctl                      \* SprinklersController (src/controller.py): its flags, the
                             \* position of execute_watering, its schedule_list and the
                             \* commands sent to the switches

machineVars == <<zstate, cycle_count, current_cycle, pre_watering_moisture, moisture_deficit,
                 last_reading,
                 active_zone, soaking_zones, zone_queue, queue_processing_active,
                 shutdown_requested, system_enabled, stop_requested, schedule, valve, timers,
                 pq_tasks, waiters, runner, ce, stops, faults, stop_calls, starts,
                 max_watering_time, ctl>>
algoVars == <<data_points, call, max_watering_time, ctl>>
vars == <<machineVars, algoVars>>

ledgerVars == <<moisture_deficit, last_reading>>
zoneVars == <<zstate, cycle_count, current_cycle, pre_watering_moisture, ledgerVars, starts,
              algoVars>>
flagVars == <<shutdown_requested, system_enabled, stop_requested, schedule, stop_calls>>

\* ---- helpers -------------------------------------------------------------
Max(a, b) == IF a > b THEN a ELSE b
InSeq(x, s) == \E i \in 1..Len(s) : s[i] = x
CeilDiv(a, b) == (a + b - 1) \div b

\* "mm_equivalent = moisture_drop * 1.0": one percent of moisture is one millimetre
Tenths(mm) == mm * 10

NoRunner == [pc |-> "none", zone |-> None, ok |-> TRUE]

\* An external call either succeeds or raises; failures are bounded by MaxFaults.
Outcomes == IF faults < MaxFaults THEN {TRUE, FALSE} ELSE {TRUE}
Charge(ok) == IF ok THEN faults ELSE faults + 1

\* switch.turn_on / switch.turn_off take effect when the call is made and succeeds.
CommandOn(v, z, ok) == IF ok THEN [v EXCEPT ![z] = "on"] ELSE v
CommandOff(v, z, ok) ==
    IF ok THEN [v EXCEPT ![z] = "off"]
    ELSE [v EXCEPT ![z] = IF @ = "off" THEN "off" ELSE "stuck"]

\* turn_off_zone after its actuator call returns: both the normal path and the
\* except path clear active_zone if it is this zone.
ClearActive(a, z) == IF a = z THEN None ELSE a

\* is_in_schedule if only an "off" schedule closed the window
InScheduleUnlessOff == schedule # "off"

\* Scheduler.is_in_schedule
is_in_schedule == IF schedule = "none" THEN TRUE ELSE schedule = "on"

\* max_watering_time=None: like a negative limit it is neither 0 nor > 0, so the
\* function applies no cap
NoMax == -1

\* calculate_watering_duration without the rounding up to whole cycles
DurationUnrounded(current, target, rate_centi, cycle_time, max_time) ==
    LET cur == IF current < 0 THEN 0 ELSE current
        tgt == IF target <= 0 THEN 80 ELSE target
        rate == IF rate_centi <= 0 THEN 50 ELSE rate_centi
        ct == IF cycle_time <= 0 THEN 15 ELSE cycle_time
        diff == Max(0, tgt - cur)
        minutes == Max(ct, CeilDiv(diff * (200 + cur), 2 * rate))
        max_cycles == Max(1, max_time \div ct)
    IN IF diff <= 0 \/ max_time = 0 THEN 0
       ELSE IF max_time > 0 /\ minutes > max_cycles * ct THEN max_cycles * ct ELSE minutes

\* calculate_watering_duration without the cap of max_watering_time
DurationUncapped(current, target, rate_centi, cycle_time, max_time) ==
    LET cur == IF current < 0 THEN 0 ELSE current
        tgt == IF target <= 0 THEN 80 ELSE target
        rate == IF rate_centi <= 0 THEN 50 ELSE rate_centi
        ct == IF cycle_time <= 0 THEN 15 ELSE cycle_time
        diff == Max(0, tgt - cur)
        num == diff * (200 + cur)
        den == 2 * rate
        raw == IF num < ct * den THEN 1 ELSE CeilDiv(num, den * ct)
    IN IF diff <= 0 \/ max_time = 0 THEN 0 ELSE raw * ct

\* calculate_watering_duration, in minutes; the absorption rate is in 1/100 %/min.
calculate_watering_duration(current, target, rate_centi, cycle_time, max_time) ==
    LET \* input validation: invalid arguments are replaced by defaults
        cur == IF current < 0 THEN 0 ELSE current
        tgt == IF target <= 0 THEN 80 ELSE target
        rate == IF rate_centi <= 0 THEN 50 ELSE rate_centi
        ct == IF cycle_time <= 0 THEN 15 ELSE cycle_time
        diff == Max(0, tgt - cur)
        \* adjusted = diff / rate * (1 + 0.5 * current / 100), as a fraction num / den
        num == diff * (200 + cur)
        den == 2 * rate
        raw == IF num < ct * den THEN 1 ELSE CeilDiv(num, den * ct)
        max_cycles == Max(1, max_time \div ct)
        cycles == IF max_time > 0 /\ raw > max_cycles THEN max_cycles ELSE raw
    IN IF diff <= 0 \/ max_time = 0 THEN 0 ELSE cycles * ct

\* QueueManager.evaluate_zone / process_queue: does the zone need water
WateringNeeded(z, m) == m <= MIN_MOISTURE \/ moisture_deficit[z] >= Tenths(DEFICIT_THRESHOLD)

\* SprinklersController.__init__: no sequence running, every switch off.
\* off_sent, failures and runs are bookkeeping of the model: the zones sent an
\* off-command since cancel() first took effect on the running sequence, the
\* failures injected, the sequences started.
NoRun ==
    [is_running |-> FALSE, cancel_requested |-> FALSE, pc |-> "idle", zone |-> None,
     cycles |-> [z \in Zones |-> 0], next_cycle_index |-> [z \in Zones |-> 0],
     soaking |-> {}, commanded |-> [z \in Zones |-> "off"],
     off_sent |-> {}, failures |-> 0, runs |-> 0]

\* The state after setup_zones, with f failures already spent
Configured(s, f) ==
    /\ zstate = [z \in Zones |-> "idle"]
    /\ cycle_count = [z \in Zones |-> 0]
    /\ current_cycle = [z \in Zones |-> 0]
    /\ pre_watering_moisture = [z \in Zones |-> NoReading]
    /\ moisture_deficit = [z \in Zones |-> 0]
    /\ last_reading = [z \in Zones |-> NoReading]
    /\ active_zone = None
    /\ soaking_zones = {}
    /\ zone_queue = <<>>
    /\ queue_processing_active = FALSE
    /\ shutdown_requested = FALSE
    /\ system_enabled = TRUE
    /\ stop_requested = FALSE
    /\ schedule = s
    /\ valve = [z \in Zones |-> "off"]
    /\ timers = {}
    /\ pq_tasks = 0
    /\ waiters = 0
    /\ runner = NoRunner
    /\ ce = [z \in Zones |-> "none"]
    /\ stops = [c \in {"disable", "emergency", "schedule"} |-> [pc |-> "none", zone |-> None]]
    /\ faults = f
    /\ stop_calls = 0
    /\ starts = 0
    /\ max_watering_time = ZoneTimes
    /\ ctl = NoRun

\* No call made yet
NoCall == [op |-> "none", args |-> <<>>, result |-> 0, held |-> 0, n |-> 0]

\* AbsorptionLearner.__init__: no sample
Fresh == data_points = <<>> /\ call = NoCall

Init == (\E s \in {"none", "on", "off"} : Configured(s, 0)) /\ Fresh

\* ---- zone evaluation (ZoneController.process_zone -> QueueManager.evaluate_zone) ----
\* The temperature sensor: no number, at the freeze threshold, one degree above it
Warm == DEFAULT_FREEZE_THRESHOLD + 1
Temps == {NoReading, DEFAULT_FREEZE_THRESHOLD, Warm}
EvalInputs ==
    {[m |-> m, temp |-> Warm, rain |-> FALSE, freeze |-> FALSE] : m \in MoistureInputs}
    \cup {[m |-> 15, temp |-> t, rain |-> FALSE, freeze |-> FALSE] : t \in Temps \ {Warm}}
    \cup {[m |-> 15, temp |-> Warm, rain |-> TRUE, freeze |-> FALSE],
          [m |-> 15, temp |-> Warm, rain |-> FALSE, freeze |-> TRUE]}

\* The readings met by a caller that evaluates every zone in one go
LoopInputs == {i \in EvalInputs : i.m # NoReading /\ i.temp = Warm /\ ~i.rain /\ ~i.freeze}

\* _handle_watering_needed: "Add to queue if not already there"
Enqueue(q, z) == IF ~InSeq(z, q) /\ z \notin soaking_zones THEN Append(q, z) ELSE q

\* _handle_watering_needed if it let a zone be queued at the freeze threshold
MayWaterAtThreshold(inp, in_window) ==
    /\ in_window
    /\ ~inp.rain
    /\ ~inp.freeze
    /\ inp.temp >= DEFAULT_FREEZE_THRESHOLD

\* The conditions of _handle_watering_needed under which the zone may be queued
MayWater(inp, in_window) ==
    /\ in_window
    /\ ~inp.rain
    /\ ~inp.freeze
    /\ inp.temp > DEFAULT_FREEZE_THRESHOLD

\* evaluate_zone if it went on without the two sensor readings
EvaluateUnchecked(q, t, z, inp, in_window) ==
    IF stop_requested \/ shutdown_requested \/ ~system_enabled THEN [q |-> q, t |-> t]
    ELSE IF active_zone = z \/ z \in soaking_zones THEN [q |-> q, t |-> t]
    ELSE IF zstate[z] \in {"watering", "soaking"} THEN [q |-> q, t |-> t]
    ELSE IF ~WateringNeeded(z, inp.m) THEN [q |-> q, t |-> t]
    ELSE IF ~MayWater(inp, in_window) THEN [q |-> q, t |-> t]
    ELSE IF InSeq(z, q) \/ z \in soaking_zones THEN [q |-> q, t |-> t]
    ELSE [q |-> Enqueue(q, z),
          t |-> IF active_zone = None /\ ~queue_processing_active /\ ~shutdown_requested
                THEN t + 1 ELSE t]

\* process_zone(z) on queue q with t created process_queue tasks: the queue and
\* the task count afterwards.
Evaluate(q, t, z, inp, in_window) ==
    IF stop_requested \/ shutdown_requested \/ ~system_enabled THEN [q |-> q, t |-> t]
    ELSE IF active_zone = z \/ z \in soaking_zones THEN [q |-> q, t |-> t]
    ELSE IF zstate[z] \in {"watering", "soaking"} THEN [q |-> q, t |-> t]
    ELSE IF inp.m = NoReading \/ inp.temp = NoReading THEN [q |-> q, t |-> t]
    ELSE IF ~WateringNeeded(z, inp.m) THEN [q |-> q, t |-> t]
    ELSE IF ~MayWater(inp, in_window) THEN [q |-> q, t |-> t]
    ELSE IF InSeq(z, q) \/ z \in soaking_zones THEN [q |-> q, t |-> t]
    ELSE [q |-> Enqueue(q, z),
          t |-> IF active_zone = None /\ ~queue_processing_active /\ ~shutdown_requested
                THEN t + 1 ELSE t]

RECURSIVE EvaluateAll(_, _, _, _, _)
\* "for zone_id in self.coordinator.zones: await self.controller.process_zone(zone_id)"
EvaluateAll(q, t, z, inps, in_window) ==
    IF z > NumZones THEN [q |-> q, t |-> t]
    ELSE LET r == Evaluate(q, t, z, inps[z], in_window)
         IN EvaluateAll(r.q, r.t, z + 1, inps, in_window)

\* One process_zone call: the task made by StateTracker._handle_moisture_change,
\* or one iteration of a caller's loop.
ProcessZone(z, inp) ==
    LET r == Evaluate(zone_queue, pq_tasks, z, inp, is_in_schedule) IN
    /\ r.t + waiters <= MaxTasks
    /\ zone_queue' = r.q
    /\ pq_tasks' = r.t
    /\ UNCHANGED <<zoneVars, flagVars, active_zone, soaking_zones, queue_processing_active,
                   valve, timers, waiters, runner, ce, stops, faults>>

\* ---- queue processing (QueueManager.process_queue) ----------------------
\* _calculate_and_start_watering: cycles_needed = max(1, int(duration / cycle_time))
CyclesNeeded(z, m) ==
    Max(1, calculate_watering_duration(m, MAX_MOISTURE, DEFAULT_RATE_CENTI, CYCLE_TIME,
                                       max_watering_time[z])
           \div CYCLE_TIME)

\* get_schedule_remaining_time() is not None and < 10: only a configured schedule
\* that is on reports a remaining time taken from its attributes.
EndingSoon(short) == schedule = "on" /\ short

RECURSIVE QueueLoopEndingAtRecovered(_, _, _)
\* the loop of process_queue if a zone that no longer needs water ended the pass
QueueLoopEndingAtRecovered(q, reads, short) ==
    IF active_zone # None \/ q = <<>> THEN [kind |-> "exit", q |-> q, zone |-> None]
    ELSE IF shutdown_requested THEN [kind |-> "cleared", q |-> <<>>, zone |-> None]
    ELSE IF ~is_in_schedule THEN [kind |-> "cleared", q |-> <<>>, zone |-> None]
    ELSE IF EndingSoon(short) THEN [kind |-> "cleared", q |-> <<>>, zone |-> None]
    ELSE LET z == Head(q)
             m == reads[z]
         IN IF m = NoReading THEN QueueLoopEndingAtRecovered(Tail(q), reads, short)
            ELSE IF m > MIN_MOISTURE /\ moisture_deficit[z] < Tenths(DEFICIT_THRESHOLD)
                 THEN [kind |-> "exit", q |-> Tail(q), zone |-> None]
            ELSE IF calculate_watering_duration(m, MAX_MOISTURE, DEFAULT_RATE_CENTI, CYCLE_TIME,
                                                max_watering_time[z]) > 0
                 THEN [kind |-> "start", q |-> Tail(q), zone |-> z]
            ELSE [kind |-> "zero", q |-> Tail(q), zone |-> z]

RECURSIVE QueueLoop(_, _, _)
\* The while loop of process_queue up to the point where it leaves the loop or
\* hands a zone to start_zone_cycle.
QueueLoop(q, reads, short) ==
    IF active_zone # None \/ q = <<>> THEN [kind |-> "exit", q |-> q, zone |-> None]
    ELSE IF shutdown_requested THEN [kind |-> "cleared", q |-> <<>>, zone |-> None]
    ELSE IF ~is_in_schedule THEN [kind |-> "cleared", q |-> <<>>, zone |-> None]
    ELSE IF EndingSoon(short) THEN [kind |-> "cleared", q |-> <<>>, zone |-> None]
    ELSE LET z == Head(q)
             m == reads[z]
         IN IF m = NoReading THEN QueueLoop(Tail(q), reads, short)
            ELSE IF m > MIN_MOISTURE /\ moisture_deficit[z] < Tenths(DEFICIT_THRESHOLD)
                 THEN QueueLoop(Tail(q), reads, short)
            ELSE IF calculate_watering_duration(m, MAX_MOISTURE, DEFAULT_RATE_CENTI, CYCLE_TIME,
                                                max_watering_time[z]) > 0
                 THEN [kind |-> "start", q |-> Tail(q), zone |-> z]
            ELSE [kind |-> "zero", q |-> Tail(q), zone |-> z]

\* _check_soaking_zones compares ready_at (a datetime) with the event loop's
\* time() (a float): the comparison raises TypeError for the first soaking zone.
CheckSoakingRaises == soaking_zones # {}

\* process_queue from the acquisition of _process_queue_lock to its first
\* suspension or its return; t and w are the task and waiter counts so far.
QueueBody(t, w) ==
    \E reads \in [Zones -> MoistureInputs], short \in BOOLEAN :
      IF CheckSoakingRaises
      THEN \* except Exception: release the flag, turn off the active zone
           /\ queue_processing_active' = FALSE
           /\ IF active_zone # None
              THEN \E ok \in Outcomes :
                     /\ runner' = [pc |-> "exc_off", zone |-> active_zone, ok |-> TRUE]
                     /\ valve' = CommandOff(valve, active_zone, ok)
                     /\ faults' = Charge(ok)
              ELSE runner' = NoRunner /\ UNCHANGED <<valve, faults>>
           /\ pq_tasks' = t /\ waiters' = w
           /\ UNCHANGED <<zoneVars, flagVars, active_zone, soaking_zones, zone_queue,
                          timers, ce, stops>>
      ELSE LET r == QueueLoop(zone_queue, reads, short) IN
           /\ zone_queue' = r.q
           /\ waiters' = w
           /\ CASE r.kind = "start" ->
                   \E ok \in Outcomes :
                     /\ starts < MaxStarts
                     /\ starts' = starts + 1
                     /\ UNCHANGED algoVars
                     /\ cycle_count' = [cycle_count EXCEPT ![r.zone] = CyclesNeeded(r.zone, reads[r.zone])]
                     /\ current_cycle' = [current_cycle EXCEPT ![r.zone] = 1]
                     /\ pre_watering_moisture' = [pre_watering_moisture EXCEPT ![r.zone] = reads[r.zone]]
                     /\ runner' = [pc |-> "turn_on", zone |-> r.zone, ok |-> ok]
                     /\ valve' = CommandOn(valve, r.zone, ok)
                     /\ faults' = Charge(ok)
                     /\ queue_processing_active' = TRUE
                     /\ pq_tasks' = t
                     /\ UNCHANGED <<zstate, ledgerVars>>
                [] r.kind = "zero" ->
                     /\ pq_tasks' = IF r.q # <<>> THEN t + 1 ELSE t
                     /\ pq_tasks' + w <= MaxTasks
                     /\ queue_processing_active' = (r.q # <<>>)
                     /\ runner' = NoRunner
                     /\ UNCHANGED <<zoneVars, valve, faults>>
                [] r.kind = "cleared" ->
                     /\ queue_processing_active' = FALSE
                     /\ pq_tasks' = t
                     /\ runner' = NoRunner
                     /\ UNCHANGED <<zoneVars, valve, faults>>
                [] OTHER ->
                     /\ queue_processing_active' = ~(active_zone = None /\ r.q = <<>>)
                     /\ pq_tasks' = t
                     /\ runner' = NoRunner
                     /\ UNCHANGED <<zoneVars, valve, faults>>
           /\ UNCHANGED <<flagVars, active_zone, soaking_zones, timers, ce, stops>>

\* A created process_queue task starts running.
ProcessQueue ==
    /\ pq_tasks > 0
    /\ IF shutdown_requested
       THEN /\ zone_queue' = <<>>
            /\ queue_processing_active' = FALSE
            /\ pq_tasks' = pq_tasks - 1
            /\ UNCHANGED <<zoneVars, flagVars, active_zone, soaking_zones, valve, timers,
                           waiters, runner, ce, stops, faults>>
       ELSE IF queue_processing_active
       THEN /\ pq_tasks' = pq_tasks - 1
            /\ UNCHANGED <<zoneVars, flagVars, active_zone, soaking_zones, zone_queue,
                           queue_processing_active, valve, timers, waiters, runner, ce,
                           stops, faults>>
       ELSE IF runner.pc # "none" \/ waiters > 0
       THEN \* async with self.controller._process_queue_lock: the lock is taken
            /\ pq_tasks' = pq_tasks - 1
            /\ waiters' = waiters + 1
            /\ UNCHANGED <<zoneVars, flagVars, active_zone, soaking_zones, zone_queue,
                           queue_processing_active, valve, timers, runner, ce, stops, faults>>
       ELSE QueueBody(pq_tasks - 1, waiters)

\* A waiting process_queue task gets the lock after its holder released it.
ProcessQueueAcquire ==
    /\ waiters > 0
    /\ runner.pc = "none"
    /\ QueueBody(pq_tasks, waiters - 1)

\* After "if not success" / the except of start_zone_cycle: go on with the queue
\* or release the flag; then the end of process_queue's try block.
AfterStart(t, flag, a) ==
    LET go == zone_queue # <<>> /\ ~shutdown_requested
        f1 == IF go THEN flag ELSE FALSE
    IN [t |-> IF go THEN t + 1 ELSE t,
        flag |-> IF a = None /\ zone_queue = <<>> /\ soaking_zones = {} THEN FALSE ELSE f1]

\* turn_on_zone if its except branch left the zone's state as it was
TurnOnFailedSilently(zs, z) == zs

\* turn_on_zone's except branch: "Reset zone state if we failed to turn on"
TurnOnFailed(zs, z) == [zs EXCEPT ![z] = "idle"]

\* turn_on_zone resumes after its actuator call; start_zone_cycle goes on.
TurnOnResume ==
    /\ runner.pc = "turn_on"
    /\ LET z == runner.zone IN
       IF runner.ok
       THEN /\ zstate' = [zstate EXCEPT ![z] = "watering"]
            /\ active_zone' = z
            /\ \E tok \in Outcomes :
                 IF tok
                 THEN /\ timers' = timers \cup {[kind |-> "cycle", zone |-> z, tracked |-> TRUE]}
                      /\ runner' = NoRunner
                      /\ UNCHANGED <<valve, faults>>
                 ELSE \* "Safety measure - turn off zone if we couldn't schedule the end"
                      \E ok \in IF faults + 1 < MaxFaults THEN {TRUE, FALSE} ELSE {TRUE} :
                        /\ runner' = [pc |-> "sched_fail_off", zone |-> z, ok |-> TRUE]
                        /\ valve' = CommandOff(valve, z, ok)
                        /\ faults' = faults + 1 + (IF ok THEN 0 ELSE 1)
                        /\ UNCHANGED timers
            /\ UNCHANGED <<cycle_count, current_cycle, pre_watering_moisture, starts, algoVars, ledgerVars,
                           flagVars, soaking_zones, zone_queue, queue_processing_active,
                           pq_tasks, waiters, ce, stops>>
       ELSE LET r == AfterStart(pq_tasks, queue_processing_active, active_zone) IN
            /\ r.t + waiters <= MaxTasks
            /\ zstate' = TurnOnFailed(zstate, z)
            /\ pq_tasks' = r.t
            /\ queue_processing_active' = r.flag
            /\ runner' = NoRunner
            /\ UNCHANGED <<cycle_count, current_cycle, pre_watering_moisture, starts, algoVars, ledgerVars,
                           flagVars, active_zone, soaking_zones, zone_queue, valve, timers,
                           waiters, ce, stops, faults>>

\* turn_off_zone resumes inside start_zone_cycle's except (timer not scheduled).
SchedFailOffResume ==
    /\ runner.pc = "sched_fail_off"
    /\ LET a == ClearActive(active_zone, runner.zone)
           r == AfterStart(pq_tasks, queue_processing_active, a)
       IN /\ r.t + waiters <= MaxTasks
          /\ active_zone' = a
          /\ pq_tasks' = r.t
          /\ queue_processing_active' = r.flag
    /\ runner' = NoRunner
    /\ UNCHANGED <<zoneVars, flagVars, soaking_zones, zone_queue, valve, timers, waiters,
                   ce, stops, faults>>

\* turn_off_zone resumes inside process_queue's except handler.
QueueErrorOffResume ==
    /\ runner.pc = "exc_off"
    /\ active_zone' = ClearActive(active_zone, runner.zone)
    /\ runner' = NoRunner
    /\ UNCHANGED <<zoneVars, flagVars, soaking_zones, zone_queue, queue_processing_active,
                   valve, timers, pq_tasks, waiters, ce, stops, faults>>

\* ---- timer callbacks (ZoneProcessor.handle_*) -----------------------------
\* "self._callback_handles = [h for h in self._callback_handles if h and h.data != zone_id]":
\* every handle made for this zone leaves the list, fired or not.
Untrack(ts, z) ==
    {[kind |-> t.kind, zone |-> t.zone, tracked |-> (t.tracked /\ t.zone # z)] : t \in ts}

Pending(kind, z) == {t \in timers : t.kind = kind /\ t.zone = z}

\* handle_soak_end if it appended the zone like evaluate_zone does
ReinsertAtBack(q, z) == Append(q, z)

\* handle_soak_end: "Add back to queue for next cycle, at the front of the line"
Reinsert(q, z) == <<z>> \o q

\* "if self.controller.zone_queue and not shutdown: create_task(process_queue())"
Continue(t) == IF zone_queue # <<>> /\ ~shutdown_requested THEN t + 1 ELSE t

\* handle_cycle_end up to its await of turn_off_zone.
CycleEnd(z) ==
    /\ ce[z] = "none"
    /\ \E tm \in Pending("cycle", z), ok \in Outcomes :
         /\ timers' = Untrack(timers \ {tm}, z)
         /\ valve' = CommandOff(valve, z, ok)
         /\ faults' = Charge(ok)
    /\ ce' = [ce EXCEPT ![z] = IF shutdown_requested THEN "off_shutdown" ELSE "off"]
    /\ UNCHANGED <<zoneVars, flagVars, active_zone, soaking_zones, zone_queue,
                   queue_processing_active, pq_tasks, waiters, runner, stops>>

SoakReads == {"ok", "bad"}

\* handle_cycle_end after turn_off_zone returned, start_soak_cycle included.
CycleEndResume(z) ==
    /\ ce[z] \in {"off_shutdown", "off", "exc_off"}
    /\ active_zone' = ClearActive(active_zone, z)
    /\ UNCHANGED <<cycle_count, pre_watering_moisture, starts, algoVars, ledgerVars, flagVars, zone_queue,
                   waiters, runner, stops>>
    /\ CASE ce[z] = "off_shutdown" ->
              /\ ce' = [ce EXCEPT ![z] = "none"]
              /\ UNCHANGED <<zstate, current_cycle, soaking_zones, queue_processing_active,
                             valve, timers, pq_tasks, faults>>
         [] ce[z] = "exc_off" ->
              /\ ce' = [ce EXCEPT ![z] = "none"]
              /\ pq_tasks' = Continue(pq_tasks)
              /\ queue_processing_active' =
                    IF zone_queue # <<>> /\ ~shutdown_requested
                    THEN queue_processing_active ELSE FALSE
              /\ UNCHANGED <<zstate, current_cycle, soaking_zones, valve, timers, faults>>
         [] OTHER ->
              \E tok \in Outcomes, ok \in {TRUE}, sr \in SoakReads :
                IF current_cycle[z] >= cycle_count[z]
                THEN \* last cycle: measure after the soak
                     /\ zstate' = [zstate EXCEPT ![z] = "measuring"]
                     /\ UNCHANGED <<current_cycle, soaking_zones>>
                     /\ IF tok
                        THEN /\ timers' = timers \cup {[kind |-> "measure", zone |-> z, tracked |-> TRUE]}
                             /\ pq_tasks' = Continue(pq_tasks)
                             /\ queue_processing_active' =
                                   IF zone_queue # <<>> /\ ~shutdown_requested
                                   THEN queue_processing_active
                                   ELSE IF active_zone' = None /\ soaking_zones = {}
                                        THEN FALSE ELSE queue_processing_active
                             /\ ce' = [ce EXCEPT ![z] = "none"]
                             /\ UNCHANGED <<valve, faults>>
                        ELSE \* except Exception: "Safety: try to turn off the zone"
                             /\ ce' = [ce EXCEPT ![z] = "exc_off"]
                             /\ valve' = CommandOff(valve, z, ok)
                             /\ faults' = faults + 1
                             /\ UNCHANGED <<timers, pq_tasks, queue_processing_active>>
                ELSE IF shutdown_requested
                THEN \* start_soak_cycle: "Shutdown requested - not starting soak cycle"
                     /\ ce' = [ce EXCEPT ![z] = "none"]
                     /\ UNCHANGED <<zstate, current_cycle, soaking_zones, queue_processing_active,
                                    valve, timers, pq_tasks, faults>>
                ELSE /\ zstate' = [zstate EXCEPT ![z] = "soaking"]
                     /\ current_cycle' = [current_cycle EXCEPT ![z] = @ + 1]
                     /\ UNCHANGED queue_processing_active
                     /\ IF sr = "bad"
                        THEN \* float(moisture_state.state) raises ValueError
                             /\ pq_tasks' = Continue(pq_tasks)
                             /\ ce' = [ce EXCEPT ![z] = "none"]
                             /\ UNCHANGED <<soaking_zones, valve, timers, faults>>
                        ELSE IF tok
                        THEN /\ timers' = timers \cup {[kind |-> "soak", zone |-> z, tracked |-> TRUE]}
                             /\ soaking_zones' = soaking_zones \cup {z}
                             /\ pq_tasks' = Continue(pq_tasks)
                             /\ ce' = [ce EXCEPT ![z] = "none"]
                             /\ UNCHANGED <<valve, faults>>
                        ELSE /\ ce' = [ce EXCEPT ![z] = "exc_off"]
                             /\ valve' = CommandOff(valve, z, ok)
                             /\ faults' = faults + 1
                             /\ UNCHANGED <<soaking_zones, timers, pq_tasks>>
    /\ pq_tasks' + waiters <= MaxTasks

\* handle_soak_end
SoakEnd(z) ==
    /\ \E tm \in Pending("soak", z) : timers' = Untrack(timers \ {tm}, z)
    /\ soaking_zones' = soaking_zones \ {z}
    /\ IF shutdown_requested
       THEN UNCHANGED <<zone_queue, pq_tasks>>
       ELSE /\ zone_queue' = Reinsert(zone_queue, z)
            /\ pq_tasks' = pq_tasks + 1
            /\ pq_tasks' + waiters <= MaxTasks
    /\ UNCHANGED <<zoneVars, flagVars, active_zone, queue_processing_active, valve,
                   waiters, runner, ce, stops, faults>>

\* _update_moisture_deficit
DeficitAfterWatering(old, increase) ==
    IF increase > 0 THEN Max(0, old - increase) ELSE old

BadReading == -2
FinalReads == MoistureInputs \cup {BadReading}

\* handle_final_measurement
FinalMeasurement(z) ==
    /\ \E tm \in Pending("measure", z) : timers' = Untrack(timers \ {tm}, z)
    /\ \E fm \in FinalReads :
         LET pre == pre_watering_moisture[z]
             current == IF fm = NoReading THEN pre ELSE fm
         IN IF fm = BadReading
            THEN UNCHANGED moisture_deficit
            ELSE moisture_deficit' =
                   [moisture_deficit EXCEPT ![z] = DeficitAfterWatering(@, Tenths(current - pre))]
    /\ zstate' = [zstate EXCEPT ![z] = "idle"]
    /\ queue_processing_active' =
          IF active_zone = None /\ soaking_zones = {} /\ zone_queue = <<>>
          THEN FALSE ELSE queue_processing_active
    /\ UNCHANGED <<cycle_count, current_cycle, pre_watering_moisture, starts, algoVars, last_reading, flagVars,
                   active_zone, soaking_zones, zone_queue, valve, pq_tasks, waiters, runner,
                   ce, stops, faults>>

\* ---- moisture deficit bookkeeping -------------------------------------------
NoWeather == -1
WeatherInputs == {[t |-> NoWeather, h |-> NoWeather], [t |-> 5, h |-> 50]}
RainInputs == {-10, 30, 100}

\* WeatherManager.async_calculate_et: the reference ET times a temperature and a
\* humidity factor, here in tenths of a millimetre
calculate_et(w) ==
    IF w.t = NoWeather \/ w.h = NoWeather THEN Tenths(DEFAULT_ET)
    ELSE LET temp_factor == IF w.t < 10 THEN 6 ELSE IF w.t > 25 THEN 13 ELSE 10
             humidity_factor == IF w.h > 70 THEN 8 ELSE IF w.h < 40 THEN 12 ELSE 10
         IN (DEFAULT_ET * temp_factor * humidity_factor) \div 10

\* async_calculate_precipitation: "precipitation shouldn't be negative"
calculate_precipitation(raw) == Max(0, raw)

\* the daily balance without its clamp
DeficitUnclamped(old, et, rain) == old + et - rain

\* "zone["moisture_deficit"] = max(0.0, new_deficit)"
DeficitAfterWeather(old, et, rain) == Max(0, old + et - rain)

UpdateDeficits(w, raw) ==
    LET new == [z \in Zones |->
                  DeficitAfterWeather(moisture_deficit[z], calculate_et(w),
                                      calculate_precipitation(raw))]
    IN /\ \A z \in Zones : new[z] <= MaxDeficit
       /\ moisture_deficit' = new
       /\ UNCHANGED <<zstate, cycle_count, current_cycle, pre_watering_moisture, starts, algoVars, last_reading,
                      flagVars, active_zone, soaking_zones, zone_queue,
                      queue_processing_active, valve, timers, pq_tasks, waiters, runner, ce,
                      stops, faults>>

\* WeatherManager.async_daily_update
DailyUpdate == \E w \in WeatherInputs, raw \in RainInputs : UpdateDeficits(w, raw)

\* services.async_service_update_moisture_deficit
UpdateMoistureDeficit == \E w \in WeatherInputs, raw \in RainInputs : UpdateDeficits(w, raw)

\* StateTracker._handle_moisture_change with a numeric reading; the process_zone
\* task it may create is the action ProcessZone.
DeficitAfterDrop(old, previous, new) ==
    IF previous # NoReading /\ previous - new > 0 THEN old + Tenths(previous - new) ELSE old

HandleMoistureChange(z, new) ==
    /\ last_reading' = [last_reading EXCEPT ![z] = new]
    /\ moisture_deficit' =
         [moisture_deficit EXCEPT ![z] = DeficitAfterDrop(@, last_reading[z], new)]
    /\ moisture_deficit'[z] <= MaxDeficit
    /\ UNCHANGED <<zstate, cycle_count, current_cycle, pre_watering_moisture, starts, algoVars, flagVars,
                   active_zone, soaking_zones, zone_queue, queue_processing_active, valve,
                   timers, pq_tasks, waiters, runner, ce, stops, faults>>

\* reset that keeps the newest sample
ResetButNewest(points) == IF points = <<>> THEN <<>> ELSE <<points[Len(points)]>>

\* AbsorptionLearner.reset
reset(points) == <<>>

\* reset_statistics if it also emptied the watering queue
ResetStatisticsAndQueue ==
    /\ moisture_deficit' = [z \in Zones |-> 0]
    /\ last_reading' = [z \in Zones |-> NoReading]
    /\ zone_queue' = <<>>
    /\ UNCHANGED <<zstate, cycle_count, current_cycle, pre_watering_moisture, starts, algoVars, flagVars,
                   active_zone, soaking_zones, queue_processing_active, valve,
                   timers, pq_tasks, waiters, runner, ce, stops, faults>>

\* services.async_service_reset_statistics
ResetStatistics ==
    /\ moisture_deficit' = [z \in Zones |-> 0]
    /\ last_reading' = [z \in Zones |-> NoReading]
    /\ data_points' = reset(data_points)
    /\ UNCHANGED <<zstate, cycle_count, current_cycle, pre_watering_moisture, starts, call,
                   max_watering_time, ctl, flagVars,
                   active_zone, soaking_zones, zone_queue, queue_processing_active, valve,
                   timers, pq_tasks, waiters, runner, ce, stops, faults>>

\* ---- stopping (ZoneController.stop_all_watering and its callers) ---------
Callers == {"disable", "emergency", "schedule"}
NoStop == [pc |-> "none", zone |-> None]

\* stop_all_watering from "Cancel all soaking timers" to its end: the soak timers
\* of the soaking zones and every handle still in _callback_handles are cancelled.
TimersAfterStop == {t \in timers : ~t.tracked /\ ~(t.kind = "soak" /\ t.zone \in soaking_zones)}
StatesAfterStop(zs) == [z \in Zones |-> IF z \in soaking_zones THEN "idle" ELSE zs[z]]

\* What the caller does when stop_all_watering has returned.
AfterStop(c, v) ==
    IF c = "emergency"
    THEN \* emergency_shutdown: "directly turn off all zone switches as a failsafe"
         \E ok \in Outcomes :
           /\ stops' = [stops EXCEPT ![c] = [pc |-> "loop", zone |-> 1]]
           /\ valve' = CommandOff(v, 1, ok)
           /\ faults' = Charge(ok)
    ELSE /\ stops' = [stops EXCEPT ![c] = NoStop]
         /\ valve' = v
         /\ UNCHANGED faults

\* stop_all_watering called by c, up to its await of turn_off_zone or to its end.
StopAll(c) ==
    /\ stop_requested' = TRUE
    /\ IF c = "emergency" THEN UNCHANGED stop_calls
       ELSE stop_calls < MaxStops /\ stop_calls' = stop_calls + 1
    /\ zone_queue' = <<>>
    /\ IF active_zone # None
       THEN /\ \E ok \in Outcomes :
                 /\ valve' = CommandOff(valve, active_zone, ok)
                 /\ faults' = Charge(ok)
            /\ stops' = [stops EXCEPT ![c] = [pc |-> "off", zone |-> active_zone]]
            /\ UNCHANGED <<zstate, active_zone, soaking_zones, timers, queue_processing_active>>
       ELSE /\ zstate' = StatesAfterStop(zstate)
            /\ soaking_zones' = {}
            /\ timers' = TimersAfterStop
            /\ queue_processing_active' = FALSE
            /\ AfterStop(c, valve)
            /\ UNCHANGED active_zone
    /\ UNCHANGED <<cycle_count, current_cycle, pre_watering_moisture, starts, algoVars, ledgerVars,
                   pq_tasks, waiters, runner, ce>>

\* stop_all_watering after turn_off_zone returned.
StopResume(c) ==
    /\ stops[c].pc = "off"
    /\ zstate' = [StatesAfterStop(zstate) EXCEPT ![stops[c].zone] = "idle"]
    /\ active_zone' = None
    /\ soaking_zones' = {}
    /\ timers' = TimersAfterStop
    /\ queue_processing_active' = FALSE
    /\ AfterStop(c, valve)
    /\ UNCHANGED <<cycle_count, current_cycle, pre_watering_moisture, starts, algoVars, ledgerVars,
                   flagVars, zone_queue, pq_tasks, waiters, runner, ce>>

\* ZoneController.disable_system (under coordinator._system_lock)
DisableSystem ==
    /\ stops["disable"].pc = "none"
    /\ system_enabled
    /\ system_enabled' = FALSE
    /\ StopAll("disable")
    /\ UNCHANGED <<shutdown_requested, schedule>>

\* ZoneController.enable_system (under coordinator._system_lock)
EnableSystem ==
    /\ stops["disable"].pc = "none"
    /\ ~system_enabled
    /\ system_enabled' = TRUE
    /\ stop_requested' = FALSE
    /\ pq_tasks' = IF zone_queue # <<>> /\ ~queue_processing_active
                   THEN pq_tasks + 1 ELSE pq_tasks
    /\ pq_tasks' + waiters <= MaxTasks
    /\ UNCHANGED <<zoneVars, shutdown_requested, schedule, active_zone, soaking_zones,
                   zone_queue, queue_processing_active, valve, timers, waiters, runner, ce,
                   stops, faults, stop_calls>>

\* SprinklersCoordinator.emergency_shutdown up to its first suspension
EmergencyShutdown ==
    /\ stops["emergency"].pc = "none"
    /\ shutdown_requested' = TRUE
    /\ StopAll("emergency")
    /\ UNCHANGED <<system_enabled, schedule>>

\* emergency_shutdown's failsafe loop: one direct switch.turn_off per zone
EmergencyLoop ==
    /\ stops["emergency"].pc = "loop"
    /\ LET i == stops["emergency"].zone IN
       IF i < NumZones
       THEN \E ok \in Outcomes :
              /\ stops' = [stops EXCEPT !["emergency"] = [pc |-> "loop", zone |-> i + 1]]
              /\ valve' = CommandOff(valve, i + 1, ok)
              /\ faults' = Charge(ok)
       ELSE /\ stops' = [stops EXCEPT !["emergency"] = [pc |-> "done", zone |-> None]]
            /\ UNCHANGED <<valve, faults>>
    /\ UNCHANGED <<zoneVars, flagVars, active_zone, soaking_zones, zone_queue,
                   queue_processing_active, timers, pq_tasks, waiters, runner, ce>>

\* ---- the schedule entity (Scheduler._handle_schedule_change, check_schedule) ----
\* The schedule turns on: "check all zones for watering needs"
ScheduleOn ==
    /\ schedule \in {"off", "unavail"}
    /\ schedule' = "on"
    /\ \E inps \in [Zones -> LoopInputs] :
         LET r == EvaluateAll(zone_queue, pq_tasks, 1, inps, TRUE) IN
         /\ r.t + waiters <= MaxTasks
         /\ zone_queue' = r.q
         /\ pq_tasks' = r.t
    /\ UNCHANGED <<zoneVars, shutdown_requested, system_enabled, stop_requested, active_zone,
                   soaking_zones, queue_processing_active, valve, timers, waiters, runner,
                   ce, stops, faults, stop_calls>>

\* The schedule turns off: "stop any active watering"
ScheduleOff ==
    /\ schedule \in {"on", "unavail"}
    /\ schedule' = "off"
    /\ IF active_zone # None \/ zone_queue # <<>> \/ soaking_zones # {}
       THEN /\ stops["schedule"].pc = "none"
            /\ StopAll("schedule")
       ELSE UNCHANGED <<zoneVars, stop_requested, active_zone, soaking_zones, zone_queue,
                         queue_processing_active, valve, timers, pq_tasks, waiters,
                         runner, ce, stops, faults, stop_calls>>
    /\ UNCHANGED <<shutdown_requested, system_enabled>>

\* The schedule entity disappears: the listener returns at "if not new_state".
ScheduleUnavailable ==
    /\ schedule \in {"on", "off"}
    /\ schedule' = "unavail"
    /\ UNCHANGED <<zoneVars, shutdown_requested, system_enabled, stop_requested, active_zone,
                   soaking_zones, zone_queue, queue_processing_active, valve, timers,
                   pq_tasks, waiters, runner, ce, stops, faults, stop_calls>>

\* Scheduler.check_schedule, the periodic check
CheckSchedule ==
    \E inps \in [Zones -> LoopInputs], short \in BOOLEAN :
      LET idle == active_zone = None /\ zone_queue = <<>> /\ soaking_zones = {}
          r == IF system_enabled /\ is_in_schedule /\ idle
               THEN EvaluateAll(zone_queue, pq_tasks, 1, inps, is_in_schedule)
               ELSE [q |-> zone_queue, t |-> pq_tasks]
          busy == active_zone # None \/ r.q # <<>> \/ soaking_zones # {}
      IN IF busy /\ ~is_in_schedule
         THEN /\ stops["schedule"].pc = "none"
              /\ StopAll("schedule")
              /\ UNCHANGED <<shutdown_requested, system_enabled, schedule>>
         ELSE /\ r.t + waiters <= MaxTasks
              /\ pq_tasks' = r.t
              /\ zone_queue' = IF r.q # <<>> /\ is_in_schedule /\ EndingSoon(short)
                               THEN <<>> ELSE r.q
              /\ UNCHANGED <<zoneVars, flagVars, active_zone, soaking_zones,
                             queue_processing_active, valve, timers, waiters, runner, ce,
                             stops, faults>>

\* ---- the program ------------------------------------------------------------
Next ==
    \/ \E z \in Zones, inp \in EvalInputs : ProcessZone(z, inp)
    \/ ProcessQueue
    \/ ProcessQueueAcquire
    \/ TurnOnResume
    \/ SchedFailOffResume
    \/ QueueErrorOffResume
    \/ \E z \in Zones : CycleEnd(z)
    \/ \E z \in Zones : CycleEndResume(z)
    \/ \E z \in Zones : SoakEnd(z)
    \/ \E z \in Zones : FinalMeasurement(z)
    \/ DisableSystem
    \/ EnableSystem
    \/ EmergencyShutdown
    \/ EmergencyLoop
    \/ \E c \in Callers : StopResume(c)
    \/ ScheduleOn
    \/ ScheduleOff
    \/ ScheduleUnavailable
    \/ CheckSchedule

Spec == Init /\ [][Next]_vars

\* What the event loop does on its own: every created task runs, every actuator
\* call returns, every pending timer fires.
Fairness ==
    /\ WF_vars(ProcessQueue)
    /\ WF_vars(ProcessQueueAcquire)
    /\ WF_vars(TurnOnResume)
    /\ WF_vars(SchedFailOffResume)
    /\ WF_vars(QueueErrorOffResume)
    /\ WF_vars(EmergencyLoop)
    /\ \A z \in Zones : WF_vars(CycleEnd(z))
    /\ \A z \in Zones : WF_vars(CycleEndResume(z))
    /\ \A z \in Zones : WF_vars(SoakEnd(z))
    /\ \A z \in Zones : WF_vars(FinalMeasurement(z))
    /\ \A c \in Callers : WF_vars(StopResume(c))

FairSpec == Spec /\ Fairness

\* Uninterrupted watering together with the bookkeeping of the moisture deficit
NextDeficit ==
    \/ \E z \in Zones, inp \in EvalInputs : ProcessZone(z, inp)
    \/ ProcessQueue
    \/ TurnOnResume
    \/ \E z \in Zones : CycleEnd(z)
    \/ \E z \in Zones : CycleEndResume(z)
    \/ \E z \in Zones : SoakEnd(z)
    \/ \E z \in Zones : FinalMeasurement(z)
    \/ \E z \in Zones, new \in Readings : HandleMoistureChange(z, new)
    \/ DailyUpdate
    \/ UpdateMoistureDeficit
    \/ ResetStatistics

\* no schedule entity, no failing actuator or timer
InitDeficit == Configured("none", MaxFaults) /\ Fresh

SpecDeficit == InitDeficit /\ [][NextDeficit]_vars

FairSpecDeficit == SpecDeficit /\ Fairness

\* ---- two zones soaking at once ------------------------------------------------
\* Both zones are configured for two cycles and both are in the soaking set with
\* their soak timers pending. The program gets there when zone 1's
\* handle_cycle_end is still suspended in its off-command (which fails) while the
\* system is disabled and enabled again, zone 2 is started and the system is
\* disabled a second time during zone 2's on-command: both cycle-end callbacks
\* then go on to start_soak_cycle. The budgets of starts, stops and failures
\* begin afresh.
InitSoak ==
    /\ zstate = [z \in Zones |-> "soaking"]
    /\ cycle_count = [z \in Zones |-> 2]
    /\ current_cycle = [z \in Zones |-> 2]
    /\ pre_watering_moisture = [z \in Zones |-> 15]
    /\ moisture_deficit = [z \in Zones |-> 0]
    /\ last_reading = [z \in Zones |-> NoReading]
    /\ active_zone = None
    /\ soaking_zones = Zones
    /\ zone_queue = <<>>
    /\ queue_processing_active = FALSE
    /\ shutdown_requested = FALSE
    /\ system_enabled = FALSE
    /\ stop_requested = TRUE
    /\ schedule \in {"none", "on"}
    /\ valve = [z \in Zones |-> IF z = 1 THEN "stuck" ELSE "off"]
    /\ timers = {[kind |-> "soak", zone |-> z, tracked |-> TRUE] : z \in Zones}
    /\ pq_tasks = 0
    /\ waiters = 0
    /\ runner = NoRunner
    /\ ce = [z \in Zones |-> "none"]
    /\ stops = [c \in {"disable", "emergency", "schedule"} |-> [pc |-> "none", zone |-> None]]
    /\ faults = 0
    /\ stop_calls = 0
    /\ starts = 0
    /\ max_watering_time = [z \in Zones |-> 2 * CYCLE_TIME]
    /\ ctl = NoRun
    /\ Fresh

\* The program from there. process_queue's except handler finds no active zone to
\* turn off: with these budgets no zone is active while another is in the
\* soaking set.
NextSoak ==
    \/ \E z \in Zones, inp \in EvalInputs : ProcessZone(z, inp)
    \/ ProcessQueue
    \/ ProcessQueueAcquire
    \/ TurnOnResume
    \/ SchedFailOffResume
    \/ \E z \in Zones : CycleEnd(z)
    \/ \E z \in Zones : CycleEndResume(z)
    \/ \E z \in Zones : SoakEnd(z)
    \/ \E z \in Zones : FinalMeasurement(z)
    \/ DisableSystem
    \/ EnableSystem
    \/ EmergencyShutdown
    \/ EmergencyLoop
    \/ \E c \in Callers : StopResume(c)
    \/ ScheduleOn
    \/ ScheduleOff
    \/ ScheduleUnavailable
    \/ CheckSchedule

SpecSoak == InitSoak /\ [][NextSoak]_vars

\* ---- algorithms: calculate_watering_duration called on its own ----------------
Currents == {-5, 0, 15, 25, 50, 90}
Targets == {0, 25, 80}
RatesCenti == {0, 10, 50, 500}
CycleTimes == {0, 10, 15}
MaxTimes == {NoMax, 0, 5, 20, 30, 60}

CalculateDuration(current, target, rate_centi, cycle_time, max_time) ==
    /\ call' = [op |-> "duration",
                args |-> <<current, target, rate_centi, cycle_time, max_time>>,
                result |-> calculate_watering_duration(current, target, rate_centi,
                                                       cycle_time, max_time),
                held |-> 0, n |-> 0]
    /\ UNCHANGED <<machineVars, data_points>>

NextDuration ==
    \E current \in Currents, target \in Targets, rate_centi \in RatesCenti,
       cycle_time \in CycleTimes, max_time \in MaxTimes :
         CalculateDuration(current, target, rate_centi, cycle_time, max_time)

InitDuration == Configured("none", 0) /\ Fresh

SpecDuration == InitDuration /\ [][NextDuration]_vars

\* ---- algorithms: one AbsorptionLearner -----------------------------------------
\* A stored sample.  Its timestamp is kept as an age class: "week" (younger than
\* 7 days), "month" (7 to 30 days) or "old" (older than 30 days).
Sample(pre, post, duration, age) ==
    [pre |-> pre, post |-> post, duration |-> duration, age |-> age]

\* point["rate"] = (post - pre) / duration, in 1/100 %/min
RateCenti(p) == (100 * (p.post - p.pre)) \div p.duration

\* add_data_point that keeps every sample
AddUntruncated(points, pre, post, duration) ==
    IF duration <= 0 THEN points
    ELSE IF post - pre <= 0 THEN points
    ELSE IF post - pre > MAX_VALID_RATE * duration THEN points
    ELSE Append(points, Sample(pre, post, duration, "week"))

\* AbsorptionLearner.add_data_point: the sample list after the call.  The tests
\* on rate = (post - pre) / duration are made on the fraction.
add_data_point(points, pre, post, duration) ==
    IF duration <= 0 THEN points
    ELSE IF post - pre <= 0 THEN points
    ELSE IF post - pre > MAX_VALID_RATE * duration THEN points
    ELSE LET all == Append(points, Sample(pre, post, duration, "week"))
         IN IF Len(all) > MAX_DATA_POINTS
            THEN SubSeq(all, Len(all) - MAX_DATA_POINTS + 1, Len(all))
            ELSE all

WithinMonth(p) == p.age # "old"
WithinWeek(p) == p.age = "week"

\* the samples get_rate and get_confidence keep: timestamp >= now - 30 days
Recent(points) == SelectSeq(points, WithinMonth)

RECURSIVE Weight(_)
\* weight = exp(alpha * (i - (len - 1))) of the sample k = len - 1 - i places
\* before the newest, in 1/1000
Weight(k) ==
    IF k = 0 THEN 1000
    ELSE IF k % 2 = 0 THEN (Weight(k \div 2) * Weight(k \div 2)) \div 1000
    ELSE (Weight(k - 1) * DECAY_MILLI) \div 1000

RECURSIVE SumOver(_, _, _)
\* the sum of term[i] for i in lo..hi
SumOver(term, lo, hi) ==
    IF lo > hi THEN 0
    ELSE IF lo = hi THEN term[lo]
    ELSE SumOver(term, lo, (lo + hi) \div 2) + SumOver(term, (lo + hi) \div 2 + 1, hi)

\* The weighted average of get_rate over a non-empty list
Ewma(points) ==
    LET len == Len(points)
        weight == [i \in 1..len |-> Weight(len - i)]
        weighted == [i \in 1..len |-> RateCenti(points[i]) * weight[i]]
    IN SumOver(weighted, 1, len) \div SumOver(weight, 1, len)

\* AbsorptionLearner.get_rate, in 1/100 %/min
get_rate(points) ==
    IF points = <<>> THEN DEFAULT_RATE_CENTI
    ELSE IF Recent(points) = <<>> THEN DEFAULT_RATE_CENTI
    ELSE Ewma(Recent(points))

\* AbsorptionLearner.get_confidence, in 1/20
get_confidence(points) ==
    IF points = <<>> THEN 0
    ELSE LET effective_points == Len(Recent(points)) + Len(SelectSeq(points, WithinWeek))
         IN IF effective_points > CONFIDENCE_POINTS THEN CONFIDENCE_POINTS
            ELSE effective_points

PreInputs == {15, 20}
PostInputs == {10, 25, 95}
DurationInputs == {-5, 0, 15}

\* A call of a method of the learner: what it was given, what it returned, and
\* how many samples the learner held when it was called
Called(op, args, result) ==
    /\ call.n < MaxCalls
    /\ call' = [op |-> op, args |-> args, result |-> result,
                held |-> Len(data_points), n |-> call.n + 1]

AddDataPoint(pre, post, duration) ==
    /\ Called("add", <<pre, post, duration>>, 0)
    /\ data_points' = add_data_point(data_points, pre, post, duration)
    /\ UNCHANGED machineVars

ResetLearner ==
    /\ Called("reset", <<>>, 0)
    /\ data_points' = reset(data_points)
    /\ UNCHANGED machineVars

\* get_rate drops the samples older than 30 days from the learner
GetRate ==
    /\ Called("get_rate", <<>>, get_rate(data_points))
    /\ data_points' = Recent(data_points)
    /\ UNCHANGED machineVars

GetConfidence ==
    /\ Called("get_confidence", <<>>, get_confidence(data_points))
    /\ UNCHANGED <<machineVars, data_points>>

\* datetime.now() advances by a week or more, or by a month or more
TimePasses(period) ==
    /\ call.n < MaxCalls
    /\ call' = [call EXCEPT !.n = @ + 1]
    /\ data_points' =
          [i \in 1..Len(data_points) |->
             [data_points[i] EXCEPT !.age = IF period = "month" \/ @ # "week" THEN "old"
                                            ELSE "month"]]
    /\ UNCHANGED machineVars

NextLearner ==
    \/ \E pre \in PreInputs, post \in PostInputs, duration \in DurationInputs :
          AddDataPoint(pre, post, duration)
    \/ ResetLearner
    \/ GetRate
    \/ GetConfidence
    \/ \E period \in {"week", "month"} : TimePasses(period)

\* A learner that has stored the same valid sample a number of times
Histories ==
    {[i \in 1..k |-> Sample(15, 25, 15, "week")] :
        k \in {0, 1, MAX_DATA_POINTS - 1, MAX_DATA_POINTS}}

InitLearner == Configured("none", 0) /\ call = NoCall /\ data_points \in Histories

SpecLearner == InitLearner /\ [][NextLearner]_vars

\* ---- algorithms: distribute_watering_time called on its own -------------------
\* One entry of zones_data; absorption_rate in 1/100 %/min, moisture_deficit in mm
ZoneData(current, target, rate_centi, deficit_mm) ==
    [current_moisture |-> current, target_moisture |-> target,
     absorption_rate |-> rate_centi, moisture_deficit |-> deficit_mm]

\* deficit = max(0, target - current)
Gap(zone) == Max(0, zone.target_moisture - zone.current_moisture)

\* total_required of one zone, in minutes, as the fraction <<numerator, denominator>>:
\* (deficit / absorption_rate) * (1 + 0.5 * current / 100), plus 2.5 minutes for
\* each millimetre of a moisture_deficit above 5.0
Required(zone) ==
    LET rate == IF zone.absorption_rate <= 0 THEN 50 ELSE zone.absorption_rate
        half_minutes == IF zone.moisture_deficit > 5 THEN 5 * zone.moisture_deficit ELSE 0
    IN <<Gap(zone) * (200 + zone.current_moisture) + half_minutes * rate, 2 * rate>>

RECURSIVE TotalRequired(_)
\* total_required_minutes as a fraction whose denominator is the product of the
\* zones' denominators
TotalRequired(zones_data) ==
    IF zones_data = <<>> THEN <<0, 1>>
    ELSE LET r == Required(Head(zones_data))
             t == TotalRequired(Tail(zones_data))
         IN <<r[1] * t[2] + t[1] * r[2], r[2] * t[2]>>

\* distribute_watering_time that grants ceil(required / cycle_time) cycles without
\* the minimum
DistributeWithoutMinimum(zones_data, available_minutes, cycle_time, min_cycle_count) ==
    [i \in 1..Len(zones_data) |->
       LET r == Required(zones_data[i])
       IN IF Gap(zones_data[i]) > 0 THEN CeilDiv(r[1], r[2] * cycle_time) ELSE 0]

\* distribute_watering_time: the cycles granted to each zone of zones_data
distribute_watering_time(zones_data, available_minutes, cycle_time, min_cycle_count) ==
    LET total == TotalRequired(zones_data)
        needing == {i \in 1..Len(zones_data) : Gap(zones_data[i]) > 0}
        remaining_minutes == available_minutes
                               - Cardinality(needing) * min_cycle_count * cycle_time
    IN [i \in 1..Len(zones_data) |->
          LET r == Required(zones_data[i]) IN
          IF total[1] <= available_minutes * total[2]
          THEN IF i \in needing
               THEN Max(min_cycle_count, CeilDiv(r[1], r[2] * cycle_time))
               ELSE 0
          ELSE (IF i \in needing THEN min_cycle_count ELSE 0)
               + (IF remaining_minutes > 0 /\ total[1] > 0 /\ r[1] > 0
                  \* int(remaining * (required / total_required) / cycle_time)
                  THEN (remaining_minutes * r[1] * (total[2] \div r[2]))
                         \div (total[1] * cycle_time)
                  ELSE 0)]

ZoneDataInputs ==
    {ZoneData(current, 60, rate_centi, deficit_mm) :
        current \in {20, 55, 70}, rate_centi \in {0, 25}, deficit_mm \in {0, 8}}
ZoneLists == {<<>>} \cup {<<a>> : a \in ZoneDataInputs}
                    \cup {<<a, b>> : a, b \in ZoneDataInputs}
AvailableInputs == {30, 120, 600}
MinCycleInputs == {1, 2}

DistributeWateringTime(zones_data, available_minutes, cycle_time, min_cycle_count) ==
    /\ call' = [op |-> "distribute",
                args |-> <<zones_data, available_minutes, cycle_time, min_cycle_count>>,
                result |-> distribute_watering_time(zones_data, available_minutes,
                                                    cycle_time, min_cycle_count),
                held |-> 0, n |-> 0]
    /\ UNCHANGED <<machineVars, data_points>>

NextDistribute ==
    \E zones_data \in ZoneLists, available_minutes \in AvailableInputs,
       cycle_time \in {10, 15}, min_cycle_count \in MinCycleInputs :
         DistributeWateringTime(zones_data, available_minutes, cycle_time, min_cycle_count)

InitDistribute == Configured("none", 0) /\ Fresh

SpecDistribute == InitDistribute /\ [][NextDistribute]_vars

\* ---- the schedule: get_schedule_remaining_time called on its own ---------------
\* The result None
NoRemaining == -1

\* "Default to a small time if we can't determine"
DEFAULT_REMAINING == 10

\* An attribute of the schedule entity that holds a time: absent, a string that
\* parse_datetime does not accept ("garbage"), a time of day such as "21:30"
\* ("clock") or a datetime ("at"), both a number of minutes after now
TimeAttribute(kind, minutes) == [kind |-> kind, minutes |-> minutes]

\* Scheduler.get_schedule_remaining_time. A time of day reaches
\* datetime.time(hour, minute), which raises TypeError (datetime is the class
\* here), so it ends at the default like a string that cannot be parsed.
get_schedule_remaining_time(configured, state, next_state_change, end_time) ==
    IF ~configured THEN NoRemaining
    ELSE IF state # "on" THEN 0
    ELSE IF next_state_change.kind = "at"
         THEN IF next_state_change.minutes > 0 THEN next_state_change.minutes ELSE 0
    ELSE IF end_time.kind = "at"
         THEN IF end_time.minutes > 0 THEN end_time.minutes ELSE 0
    ELSE DEFAULT_REMAINING

NextChanges ==
    {TimeAttribute("absent", 0), TimeAttribute("garbage", 0)}
    \cup {TimeAttribute("at", m) : m \in {-5, 0, 25}}
EndTimes ==
    {TimeAttribute("absent", 0), TimeAttribute("garbage", 0), TimeAttribute("clock", 40)}
    \cup {TimeAttribute("at", m) : m \in {-5, 0, 40}}

GetScheduleRemainingTime(configured, state, next_state_change, end_time) ==
    /\ call' = [op |-> "remaining",
                args |-> <<configured, state, next_state_change, end_time>>,
                result |-> get_schedule_remaining_time(configured, state,
                                                       next_state_change, end_time),
                held |-> 0, n |-> 0]
    /\ UNCHANGED <<machineVars, data_points>>

NextRemaining ==
    \E configured \in BOOLEAN, state \in {"on", "off", "unavail"},
       next_state_change \in NextChanges, end_time \in EndTimes :
         GetScheduleRemainingTime(configured, state, next_state_change, end_time)

\* The state after construction, for the operations checked on their own
InitCalls == Configured("none", 0) /\ Fresh

SpecRemaining == InitCalls /\ [][NextRemaining]_vars

\* ---- the deficit after a session: _update_moisture_deficit called on its own ----
\* Deficits in tenths of a millimetre, moisture in percent
\* handle_final_measurement's deficit update: moisture_increase = current - pre,
\* then _update_moisture_deficit(zone, moisture_increase). The zone's target
\* (max_moisture) is not read.
UpdateDeficitAfterWatering(old, pre, final, target) ==
    /\ call' = [op |-> "final_deficit",
                args |-> <<old, pre, final, target>>,
                result |-> DeficitAfterWatering(old, Tenths(final - pre)),
                held |-> 0, n |-> 0]
    /\ UNCHANGED <<machineVars, data_points>>

NextFinalDeficit ==
    \E old \in {0, 30, 80, 150, 200}, pre \in {15, 20, 25}, final \in {15, 20, 25, 30},
       target \in {MAX_MOISTURE, MAX_MOISTURE + 5} :
       UpdateDeficitAfterWatering(old, pre, final, target)

SpecFinalDeficit == InitCalls /\ [][NextFinalDeficit]_vars

\* ---- the efficiency factor: _update_efficiency_factor over a zone's sessions ----
\* Factors in units of 0.00001, moisture in hundredths of a percent
DEFAULT_EFFICIENCY_FACTOR == 100000
MIN_EFFICIENCY_FACTOR == 50000
MAX_EFFICIENCY_FACTOR == 100000
EFFICIENCY_ADJUST_STEP == 5000

\* start_zone_cycle: expected_increase = absorption_rate * cycle_minutes, here
\* with the default rate
ExpectedIncrease == DEFAULT_RATE_CENTI * CYCLE_TIME

\* The moisture increases of a session, chosen so that the ratio to the expected
\* increase is -2/3, 0, 0.6, 0.8, 0.9, 1, 1.2 and 2
MoistureIncreases == {-500, 0, 450, 600, 675, 750, 900, 1500}

Min(a, b) == IF a < b THEN a ELSE b

\* _update_efficiency_factor without its last step
UpdateEfficiencyUnbounded(old_factor, increase, expected) ==
    IF increase > expected
    THEN Min(MAX_EFFICIENCY_FACTOR, old_factor + EFFICIENCY_ADJUST_STEP)
    ELSE IF 10 * increase < 8 * expected
    THEN Max(MIN_EFFICIENCY_FACTOR, old_factor - EFFICIENCY_ADJUST_STEP)
    ELSE old_factor - ((EFFICIENCY_ADJUST_STEP \div 2) * (expected - increase)) \div expected

\* Processor._update_efficiency_factor with efficiency_ratio = increase / expected:
\* "efficiency_ratio > 1" is increase > expected, "efficiency_ratio < 0.8" is
\* 10 * increase < 8 * expected
update_efficiency_factor(old_factor, increase, expected) ==
    LET new_factor ==
          IF increase > expected
          THEN Min(MAX_EFFICIENCY_FACTOR, old_factor + EFFICIENCY_ADJUST_STEP)
          ELSE IF 10 * increase < 8 * expected
          THEN Max(MIN_EFFICIENCY_FACTOR, old_factor - EFFICIENCY_ADJUST_STEP)
          ELSE old_factor
                 - ((EFFICIENCY_ADJUST_STEP \div 2) * (expected - increase)) \div expected
    IN Max(MIN_EFFICIENCY_FACTOR, Min(MAX_EFFICIENCY_FACTOR, new_factor))

\* zone["efficiency_factor"] of the one zone followed: the result of the last
\* call, or the value setup_zones gave it
efficiency_factor ==
    IF call.op \in {"efficiency", "efficiency_reset"} THEN call.result
    ELSE DEFAULT_EFFICIENCY_FACTOR

\* handle_final_measurement, the efficiency part: runs only when
\* watering_expected_increase > 0
UpdateEfficiencyFactor(increase) ==
    /\ ExpectedIncrease > 0
    /\ call' = [op |-> "efficiency",
                args |-> <<efficiency_factor, increase, ExpectedIncrease>>,
                result |-> update_efficiency_factor(efficiency_factor, increase,
                                                    ExpectedIncrease),
                held |-> 0, n |-> 0]
    /\ UNCHANGED <<machineVars, data_points>>

\* async_service_reset_statistics, the efficiency part
ResetEfficiencyFactor ==
    /\ call' = [op |-> "efficiency_reset", args |-> <<efficiency_factor>>,
                result |-> DEFAULT_EFFICIENCY_FACTOR, held |-> 0, n |-> 0]
    /\ UNCHANGED <<machineVars, data_points>>

NextEfficiency ==
    \/ \E increase \in MoistureIncreases : UpdateEfficiencyFactor(increase)
    \/ ResetEfficiencyFactor

SpecEfficiency == InitCalls /\ [][NextEfficiency]_vars

\* ---- SprinklersController (src/controller.py): execute_watering and cancel -----
\* Everything but ctl
restVars ==
    <<zstate, cycle_count, current_cycle, pre_watering_moisture, moisture_deficit,
      last_reading, active_zone, soaking_zones, zone_queue, queue_processing_active,
      shutdown_requested, system_enabled, stop_requested, schedule, valve, timers,
      pq_tasks, waiters, runner, ce, stops, faults, stop_calls, starts,
      max_watering_time, data_points, call>>

\* len(entry["cycles"]) of the zones that need water: one cycle, or two with a
\* soak between them; 0 for a zone with needed_time = 0
Schedules == {cycles \in [Zones -> 0..2] : \E z \in Zones : cycles[z] > 0}

\* The zones of schedule_list, which keeps the order of self.zones
Scheduled(c) == {z \in Zones : c.cycles[z] > 0}

\* entries_left
EntriesLeft(c) == {z \in Zones : c.next_cycle_index[z] < c.cycles[z]}

\* The first zone of a non-empty set in the order of schedule_list
FirstOf(zs) == CHOOSE z \in zs : \A y \in zs : z <= y

\* The run is over: "self.is_running = False"
RunEnded(c) == [c EXCEPT !.is_running = FALSE, !.pc = "idle", !.zone = None]

\* The loop of the finally block from the k-th zone on, up to its next await:
\* turn_off is called for the next entry of schedule_list
CleanupFrom(c, k) ==
    LET rest == {z \in Scheduled(c) : z >= k}
    IN IF rest = {} THEN RunEnded(c)
       ELSE [c EXCEPT !.pc = "cleanup", !.zone = FirstOf(rest),
                      !.commanded[FirstOf(rest)] = "off",
                      !.off_sent = @ \cup {FirstOf(rest)}]

\* The finally block of execute_watering up to its first await
Finally(c) == IF c.cancel_requested THEN CleanupFrom(c, 1) ELSE RunEnded(c)

\* One pass of "while True" up to its next await: break on cancel_requested or
\* when no cycle is left, else the on-command for the first entry whose soak is
\* over, else the sleep until one is
LoopTop(c) ==
    IF c.cancel_requested \/ EntriesLeft(c) = {} THEN Finally(c)
    ELSE IF EntriesLeft(c) \ c.soaking # {}
    THEN [c EXCEPT !.pc = "turn_on", !.zone = FirstOf(EntriesLeft(c) \ c.soaking),
                   !.commanded[FirstOf(EntriesLeft(c) \ c.soaking)] = "on"]
    ELSE [c EXCEPT !.pc = "soak_wait", !.zone = None]

\* run_schedule / start_manual: "if self.is_running: return", then
\* execute_watering up to its first await. The awaits in between (update_moisture,
\* determine_watering_times, should_skip_for_weather) never suspend.
ExecuteWatering(cycles) ==
    /\ ctl.pc = "idle" /\ ~ctl.is_running
    /\ ctl.runs < MaxRuns
    /\ ctl' = LoopTop([ctl EXCEPT !.is_running = TRUE, !.cancel_requested = FALSE,
                                  !.cycles = cycles,
                                  !.next_cycle_index = [z \in Zones |-> 0],
                                  !.soaking = {}, !.off_sent = {},
                                  !.runs = @ + 1])
    /\ UNCHANGED restVars

\* The switch.turn_on call returns: "await asyncio.sleep(cycle_duration)"
TurnOnReturns ==
    /\ ctl.pc = "turn_on"
    /\ ctl' = [ctl EXCEPT !.pc = "watering"]
    /\ UNCHANGED restVars

\* The cycle's sleep ends: the off-command is sent
CycleSleepEnds ==
    /\ ctl.pc = "watering"
    /\ ctl' = [ctl EXCEPT !.pc = "turn_off", !.commanded[ctl.zone] = "off",
                          !.off_sent = IF ctl.cancel_requested
                                       THEN @ \cup {ctl.zone} ELSE @]
    /\ UNCHANGED restVars

\* The switch.turn_off call returns: the cycle is marked completed and, if the
\* zone has a cycle left, its next_available is set (with soak = 0 it is
\* available at once); then the loop goes round
TurnOffReturns ==
    /\ ctl.pc = "turn_off"
    /\ \E soak \in BOOLEAN :
         LET z == ctl.zone
             done == [ctl EXCEPT !.next_cycle_index[z] = @ + 1]
         IN ctl' = LoopTop([done EXCEPT !.soaking =
                              IF done.next_cycle_index[z] < done.cycles[z] /\ soak
                              THEN @ \cup {z} ELSE @])
    /\ UNCHANGED restVars

\* Time passes while a cycle runs: the soak of zone z is over
SoakElapses(z) ==
    /\ ctl.pc \in {"turn_on", "watering", "turn_off"}
    /\ z \in ctl.soaking
    /\ ctl' = [ctl EXCEPT !.soaking = @ \ {z}]
    /\ UNCHANGED restVars

\* "await asyncio.sleep(wait_seconds)" ends when the soak of zone z is over
SoakWaitEnds(z) ==
    /\ ctl.pc = "soak_wait"
    /\ z \in ctl.soaking
    /\ ctl' = LoopTop([ctl EXCEPT !.soaking = @ \ {z}])
    /\ UNCHANGED restVars

\* A turn_off call of the finally block returns or raises ("except Exception:
\* pass"): the loop goes on with the next entry
CleanupReturns ==
    /\ ctl.pc = "cleanup"
    /\ ctl' = CleanupFrom(ctl, ctl.zone + 1)
    /\ UNCHANGED restVars

\* A service call of the loop raises: the exception leaves the try block
ServiceCallRaises ==
    /\ ctl.pc \in {"turn_on", "turn_off"}
    /\ ctl.failures < MaxFaults
    /\ ctl' = Finally([ctl EXCEPT !.failures = @ + 1])
    /\ UNCHANGED restVars

\* The task that runs execute_watering is cancelled: CancelledError is raised at
\* the await it is suspended in. In the loop it leaves the try block; in the
\* finally block "except Exception" does not catch it and it leaves the function
\* before "self.is_running = False".
TaskCancelled ==
    /\ ctl.pc \in {"turn_on", "watering", "turn_off", "soak_wait", "cleanup"}
    /\ ctl.failures < MaxFaults
    /\ ctl' = IF ctl.pc = "cleanup"
              THEN [ctl EXCEPT !.failures = @ + 1, !.pc = "idle", !.zone = None]
              ELSE Finally([ctl EXCEPT !.failures = @ + 1])
    /\ UNCHANGED restVars

\* cancel() without its test of is_running
CancelUnguarded(c) ==
    [c EXCEPT !.cancel_requested = TRUE,
              !.off_sent = IF c.cancel_requested THEN @ ELSE {}]

\* SprinklersController.cancel
cancel(c) ==
    IF c.is_running
    THEN [c EXCEPT !.cancel_requested = TRUE,
                   !.off_sent = IF c.cancel_requested THEN @ ELSE {}]
    ELSE c

Cancel ==
    /\ ctl' = cancel(ctl)
    /\ UNCHANGED restVars

\* The sequence and calls to cancel, with service calls that may raise
NextCancel ==
    \/ \E cycles \in Schedules : ExecuteWatering(cycles)
    \/ TurnOnReturns
    \/ CycleSleepEnds
    \/ TurnOffReturns
    \/ \E z \in Zones : SoakElapses(z)
    \/ \E z \in Zones : SoakWaitEnds(z)
    \/ CleanupReturns
    \/ ServiceCallRaises
    \/ Cancel

\* ... and with the task cancelled from outside
NextController == NextCancel \/ TaskCancelled

SpecController == InitCalls /\ [][NextController]_vars

SpecCancel == InitCalls /\ [][NextCancel]_vars

\* Sleeps end and service calls return or raise
FairnessCancel ==
    /\ WF_vars(TurnOnReturns)
    /\ WF_vars(CycleSleepEnds)
    /\ WF_vars(TurnOffReturns)
    /\ \A z \in Zones : WF_vars(SoakWaitEnds(z))
    /\ WF_vars(CleanupReturns)

FairSpecCancel == SpecCancel /\ FairnessCancel

\* ---- properties ----------------------------------------------------------------
Watering == {z \in Zones : zstate[z] = "watering"}

\* C1: in every reachable state at most one zone has state watering
AtMostOneWatering == Cardinality(Watering) <= 1

\* C2: every valve that is commanded on is eventually commanded off
NoValveLeftOpen == \A z \in Zones : (valve[z] = "on") ~> (valve[z] # "on")

\* The step in which emergency_shutdown returns
EmergencyCompletes == stops["emergency"].pc # "done" /\ stops'["emergency"].pc = "done"

\* C3: when emergency_shutdown completes no zone is watering or soaking, the queue
\* and the soaking set are empty, and the last command to every valve was off
ShutdownLeavesNothing ==
    [][EmergencyCompletes =>
         /\ \A z \in Zones : zstate'[z] \notin {"watering", "soaking"}
         /\ zone_queue' = <<>>
         /\ soaking_zones' = {}
         /\ \A z \in Zones : valve'[z] # "on"]_vars

\* C7: the queue never holds the same zone twice
NoDuplicateInQueue ==
    \A i, j \in 1..Len(zone_queue) : i # j => zone_queue[i] # zone_queue[j]

\* C9: once shutdown is requested no valve is commanded on, no zone enters
\* watering or soaking, the queue gets no new entry, and a final measurement
\* changes neither a zone's state nor its deficit
ShutdownAborts ==
    [][shutdown_requested =>
         /\ \A z \in Zones : valve'[z] = "on" => valve[z] = "on"
         /\ \A z \in Zones : zstate'[z] \in {"watering", "soaking"} => zstate'[z] = zstate[z]
         /\ Len(zone_queue') <= Len(zone_queue)
         /\ (\E z \in Zones : Pending("measure", z) # {} /\ Pending("measure", z)' = {})
               => zstate' = zstate /\ moisture_deficit' = moisture_deficit]_vars

\* The step in which a call of stop_all_watering returns
StopReturns ==
    \/ \E c \in Callers : stops[c].pc = "off" /\ stops'[c].pc # "off"
    \/ /\ active_zone = None
       /\ \/ stop_calls' = stop_calls + 1
          \/ stops["emergency"].pc = "none" /\ stops'["emergency"].pc = "loop"

\* C10: when stop_all_watering returns the queue and the soaking set are empty,
\* there is no active zone, and no cycle-end, soak-end or measurement callback
\* is left to run
StopLeavesNothing ==
    [][StopReturns =>
         /\ zone_queue' = <<>>
         /\ soaking_zones' = {}
         /\ active_zone' = None
         /\ timers' = {}]_vars

\* The step in which process_queue hands a zone to start_zone_cycle
StartStep == starts' = starts + 1

\* A zone whose soak has ended and that waits at the head of the queue for its
\* next cycle
SoakCompleted(z) ==
    /\ zstate[z] = "soaking"
    /\ z \notin soaking_zones
    /\ zone_queue # <<>>
    /\ Head(zone_queue) = z

\* C4: once the first zone's cycle has ended (it soaks or is measured), a second
\* zone that waits in the queue eventually waters, unless it has left the queue
\* or no further start is possible
SecondZoneWaters ==
    \A a, b \in Zones :
       (a # b /\ (zstate[a] = "measuring" \/ (zstate[a] = "soaking" /\ a \in soaking_zones))
              /\ zstate[b] = "idle" /\ InSeq(b, zone_queue))
       ~> (zstate[b] = "watering" \/ ~InSeq(b, zone_queue) \/ starts = MaxStarts)

DeficitNonNegative == \A z \in Zones : moisture_deficit[z] >= 0

\* a watered and measured zone has no deficit left while another zone has one
DeficitCleared ==
    \E y, z \in Zones : /\ moisture_deficit[z] > 0
                         /\ moisture_deficit[y] = 0
                         /\ pre_watering_moisture[y] # NoReading
                         /\ last_reading[y] # NoReading
                         /\ zstate[y] = "idle"

\* A run of process_queue that reaches the schedule check of its loop
LoopEntered ==
    /\ runner.pc = "none"
    /\ ~CheckSoakingRaises
    /\ active_zone = None
    /\ zone_queue # <<>>
    /\ \/ ProcessQueue /\ waiters = 0 /\ ~queue_processing_active /\ ~shutdown_requested
       \/ ProcessQueueAcquire

Reentrant == ProcessQueue /\ runner.pc # "none"

\* C11: a process_queue invocation that arrives while another is in progress
\* returns without starting a zone, without changing the queue and without
\* waiting for the lock
SingleFlight ==
    [][Reentrant => zone_queue' = zone_queue /\ waiters' = waiters /\ ~StartStep]_vars

\* C12: when the on-command for the zone taken from the queue raises, a zone
\* still waiting in the queue is eventually started, unless it has left the
\* queue or no further start is possible
StartFailureContinues ==
    \A b \in Zones :
       (runner.pc = "turn_on" /\ ~runner.ok /\ zstate[b] = "idle" /\ InSeq(b, zone_queue))
       ~> (zstate[b] = "watering" \/ ~InSeq(b, zone_queue) \/ starts = MaxStarts)

\* C13: while a failed off-command for the active zone has not been re-attempted
\* the zone stays the active zone, keeps its state, and no other zone is started
OffFailureRetried ==
    [][\A z \in Zones :
         (valve[z] = "stuck" /\ active_zone = z) =>
            \/ valve'[z] # "stuck"
            \/ active_zone' = z /\ zstate'[z] = zstate[z] /\ ~StartStep]_vars

\* C14: during a zone's session cycle_count does not change, current_cycle
\* only grows, by one per soak, and the zone enters measuring when
\* current_cycle has reached cycle_count
CyclesCountedOnce ==
    [][\A z \in Zones :
         /\ zstate[z] \in {"watering", "soaking"} =>
               /\ cycle_count'[z] = cycle_count[z]
               /\ current_cycle'[z] \in {current_cycle[z], current_cycle[z] + 1}
         /\ (zstate[z] # "measuring" /\ zstate'[z] = "measuring") =>
               current_cycle[z] = cycle_count[z]]_vars

\* The watering cycles a zone that soaks or is measured has had in its session,
\* as far as its counters tell
CyclesDone(z) == IF zstate[z] = "measuring" THEN cycle_count[z] ELSE current_cycle[z] - 1

\* C15: a zone is not started again within its session (while it soaks or is
\* measured) when one more cycle brings its watering time above
\* max_watering_time, or above one cycle when max_watering_time is shorter
SessionWithinMax ==
    [][\A z \in Zones :
         (StartStep /\ runner'.zone = z /\ zstate[z] \in {"soaking", "measuring"}) =>
            (CyclesDone(z) + 1) * CYCLE_TIME <= Max(max_watering_time[z], CYCLE_TIME)]_vars

DurationCall ==
    /\ call.op = "duration"
    /\ call.args[2] > 0 /\ call.args[3] > 0 /\ call.args[4] > 0
    /\ (call.args[5] = NoMax \/ call.args[5] >= 0)

\* C17: for such arguments calculate_watering_duration returns a non-negative
\* whole number of cycle_times, and 0 when current_moisture >= target_moisture
DurationWholeCycles ==
    DurationCall =>
       /\ call.result >= 0
       /\ call.result % call.args[4] = 0
       /\ (call.args[1] >= call.args[2] => call.result = 0)

\* an uncapped call that returned several cycles
SeveralCycles ==
    DurationCall /\ call.args[5] = NoMax /\ call.result >= 2 * call.args[4]

\* C18: with max_watering_time > 0 the result is at most max_watering_time when
\* that is at least one cycle_time, exactly one cycle_time when it is shorter
\* and water is needed, and so never above max(max_watering_time, cycle_time)
DurationWithinMax ==
    (DurationCall /\ call.args[5] > 0) =>
       /\ (call.args[5] >= call.args[4] => call.result <= call.args[5])
       /\ (call.args[5] < call.args[4] /\ Max(0, call.args[1]) < call.args[2]) =>
             call.result = call.args[4]
       /\ call.result <= Max(call.args[5], call.args[4])

\* a call with a limit shorter than one cycle that returned one cycle
OneCycleAboveLimit ==
    /\ DurationCall
    /\ call.args[5] > 0 /\ call.args[5] < call.args[4]
    /\ call.result = call.args[4]

ValidSample(p) ==
    p.duration > 0 /\ p.post - p.pre > 0 /\ p.post - p.pre <= MAX_VALID_RATE * p.duration

\* add_data_point arguments with duration <= 0, post <= pre or rate > 5.0
Rejected(args) ==
    args[3] <= 0 \/ args[2] <= args[1] \/ args[2] - args[1] > MAX_VALID_RATE * args[3]

\* C19: the learner never holds more than 100 samples, every stored rate r has
\* 0 < r <= 5.0, and an add_data_point call with duration <= 0, post <= pre or
\* rate > 5.0 leaves the samples as they were
LearnerKeepsValidSamples ==
    /\ [](/\ Len(data_points) <= MAX_DATA_POINTS
          /\ \A i \in 1..Len(data_points) : ValidSample(data_points[i]))
    /\ [][\A pre \in PreInputs, post \in PostInputs, duration \in DurationInputs :
            (AddDataPoint(pre, post, duration) /\ Rejected(<<pre, post, duration>>)) =>
               data_points' = data_points]_vars

\* a sample was accepted by a learner that already held 100
OldestSampleDropped ==
    /\ call.op = "add" /\ ~Rejected(call.args)
    /\ call.held = MAX_DATA_POINTS
    /\ Len(data_points) = MAX_DATA_POINTS
    /\ data_points[MAX_DATA_POINTS].post = call.args[2]

\* C20: right after reset() get_rate() gives the default rate of a new learner
\* and get_confidence() gives 0
ResetForgets ==
    call.op = "reset" =>
       /\ get_rate(data_points) = get_rate(<<>>)
       /\ get_rate(data_points) = DEFAULT_RATE_CENTI
       /\ get_confidence(data_points) = 0

\* reset() was called on a learner that held 100 samples
ResetOfFullLearner == call.op = "reset" /\ call.held = MAX_DATA_POINTS

\* The last call was distribute_watering_time and the total time required by its
\* zones was at most available_minutes
DistributedInFull ==
    /\ call.op = "distribute"
    /\ TotalRequired(call.args[1])[1] <= call.args[2] * TotalRequired(call.args[1])[2]

\* C21: when the total required time fits in available_minutes, every zone with
\* target above current moisture gets at least min_cycle_count cycles and every
\* other zone gets none
EveryNeedServed ==
    DistributedInFull =>
       \A i \in 1..Len(call.args[1]) :
          IF Gap(call.args[1][i]) > 0 THEN call.result[i] >= call.args[4]
          ELSE call.result[i] = 0

\* two zones fit, one needing fewer cycles than min_cycle_count, the other has
\* only a deficit in mm and gets nothing
MinimumGranted ==
    /\ DistributedInFull
    /\ Len(call.args[1]) = 2
    /\ Gap(call.args[1][1]) > 0 /\ call.result[1] = call.args[4] /\ call.args[4] = 2
    /\ CeilDiv(Required(call.args[1][1])[1], Required(call.args[1][1])[2] * call.args[3]) = 1
    /\ Gap(call.args[1][2]) = 0 /\ call.args[1][2].moisture_deficit > 5
    /\ call.result[2] = 0

\* C22 as stated: evaluate_zone leaves the queue unchanged for a zone that is not
\* idle, that is the active zone, or that is in the soaking set
EvaluateSkipsBusyZone ==
    [][\A z \in Zones, inp \in EvalInputs :
          (ProcessZone(z, inp) /\ (zstate[z] # "idle" \/ active_zone = z \/ z \in soaking_zones))
          => zone_queue' = zone_queue]_vars

\* evaluate_zone may queue zone z on reading inp: the system is enabled and not
\* shutting down, the zone is needed, the schedule is in-window, neither rain nor
\* freeze is forecast and the temperature is strictly above the freeze threshold
QueueingAllowed(z, inp) ==
    /\ system_enabled
    /\ ~shutdown_requested
    /\ inp.m # NoReading
    /\ inp.m <= MIN_MOISTURE \/ moisture_deficit[z] >= Tenths(DEFICIT_THRESHOLD)
    /\ is_in_schedule
    /\ ~inp.rain
    /\ ~inp.freeze
    /\ inp.temp # NoReading
    /\ inp.temp > DEFAULT_FREEZE_THRESHOLD

\* C23: a call of evaluate_zone that changes the queue appends the evaluated
\* zone to it, and does so only when queueing is allowed; if any of the
\* conditions fails the queue is left unchanged
EnqueueOnlyWhenAllowed ==
    [][zone_queue' # zone_queue =>
          \A z \in Zones, inp \in EvalInputs :
             ProcessZone(z, inp) =>
                QueueingAllowed(z, inp) /\ zone_queue' = Append(zone_queue, z)]_vars

\* a zone has been queued by evaluate_zone inside an open schedule window and
\* its process_queue task is about to run
EnqueuedInWindow ==
    /\ starts = 0
    /\ schedule = "on"
    /\ zone_queue # <<>>
    /\ pq_tasks = 1
    /\ active_zone = None

\* The reading of the moisture or of the temperature sensor is missing or is not
\* a number
SensorUnreadable(inp) == inp.m = NoReading \/ inp.temp = NoReading

\* C24: a call of evaluate_zone that finds the moisture or the temperature sensor
\* missing or unreadable changes nothing: the queue, every zone's state and
\* deficit, active_zone and the soaking set stay as they are and no process_queue
\* task is created
UnreadableSensorChangesNothing ==
    [][(\E z \in Zones, inp \in EvalInputs : SensorUnreadable(inp) /\ ProcessZone(z, inp))
          => UNCHANGED <<zone_queue, zstate, moisture_deficit, active_zone, soaking_zones,
                         pq_tasks, queue_processing_active>>]_vars

\* an idle zone with a deficit at the threshold waits outside the queue while the
\* system is enabled and nothing is being stopped: only its sensors decide
\* whether an evaluation queues it
NeededZoneNotQueued ==
    \E z \in Zones :
       /\ zstate[z] = "idle"
       /\ moisture_deficit[z] >= Tenths(DEFICIT_THRESHOLD)
       /\ last_reading[z] # NoReading
       /\ ~InSeq(z, zone_queue)
       /\ active_zone = None
       /\ system_enabled /\ ~stop_requested /\ ~shutdown_requested /\ is_in_schedule

\* process_queue's double check: the reading m of zone z is above min_moisture
\* and the zone's deficit is below the threshold
Recovered(z, m) ==
    m # NoReading /\ m > MIN_MOISTURE /\ moisture_deficit[z] < Tenths(DEFICIT_THRESHOLD)

\* A pass of process_queue over the present queue gets as far as popping its head
PopsHead(short) ==
    /\ zone_queue # <<>>
    /\ active_zone = None
    /\ ~shutdown_requested
    /\ is_in_schedule
    /\ ~EndingSoon(short)

\* C25: a pass of process_queue that pops a zone which no longer needs water goes
\* on as a pass over the rest of the queue, so the zone is removed and the next
\* queued zone is handled in the same pass; and the zone that process_queue
\* starts (the only one it commands on) never is a zone that no longer needs water
RecoveredZoneSkipped ==
    /\ [](\A reads \in [Zones -> MoistureInputs], short \in BOOLEAN :
             (PopsHead(short) /\ Recovered(Head(zone_queue), reads[Head(zone_queue)]))
             => QueueLoop(zone_queue, reads, short) = QueueLoop(Tail(zone_queue), reads, short))
    /\ [][StartStep =>
             /\ ~Recovered(runner'.zone, pre_watering_moisture'[runner'.zone])
             /\ \A z \in Zones \ {runner'.zone} : valve'[z] = valve[z]]_vars

\* process_queue is about to run on a queue of two zones: if the first has
\* recovered and the second is dry, the pass drops the first and starts the second
RecoveredHeadOfTwo ==
    /\ Len(zone_queue) = 2
    /\ zone_queue[1] # zone_queue[2]
    /\ pq_tasks > 0 /\ ~queue_processing_active /\ runner.pc = "none" /\ waiters = 0
    /\ soaking_zones = {}
    /\ PopsHead(FALSE)
    /\ LET reads == [z \in Zones |-> IF z = zone_queue[1] THEN 25 ELSE 15]
           r == QueueLoop(zone_queue, reads, FALSE)
       IN /\ Recovered(zone_queue[1], reads[zone_queue[1]])
          /\ r.kind = "start" /\ r.zone = zone_queue[2] /\ r.q = <<>>

\* C26: when the on-command of turn_on_zone has failed, the zone's state is idle
\* afterwards, active_zone is not that zone and no timer has been scheduled
FailedOnCommandLeavesIdle ==
    [][(runner.pc = "turn_on" /\ ~runner.ok /\ TurnOnResume) =>
          /\ zstate'[runner.zone] = "idle"
          /\ active_zone' # runner.zone
          /\ timers' = timers]_vars

\* the first start ever, of a zone that was to water two cycles, has failed at
\* the on-command: the zone is idle in its first cycle though nothing was stopped
FirstStartFailed ==
    /\ starts = 1 /\ faults = 1 /\ stop_calls = 0 /\ ~shutdown_requested
    /\ runner.pc = "none"
    /\ \E z \in Zones : /\ cycle_count[z] = 2 /\ current_cycle[z] = 1
                         /\ zstate[z] = "idle"
                         /\ valve[z] = "off"
                         /\ active_zone # z
                         /\ Pending("cycle", z) = {}

\* C27 as stated: when the cycle-end timer could not be scheduled and
\* start_zone_cycle's off-command has returned, active_zone is cleared and the
\* zone is no longer in state watering
SchedulingFailureStopsZone ==
    [][(runner.pc = "sched_fail_off" /\ SchedFailOffResume) =>
          /\ active_zone' # runner.zone
          /\ zstate'[runner.zone] # "watering"]_vars

\* The changes of a zone's state in a watering session
SessionEdges ==
    {<<"idle", "watering">>, <<"watering", "soaking">>, <<"soaking", "watering">>,
     <<"watering", "measuring">>, <<"measuring", "idle">>}

\* C28 as stated: a zone's state changes along a session edge only, or to idle by
\* something other than the final-measurement callback (a stop, a disable, a
\* shutdown or a failed start); so measuring never turns into watering and a
\* final measurement never sets a watering zone idle
StateFollowsSessionEdges ==
    [][\A z \in Zones :
          zstate'[z] # zstate[z] =>
             \/ <<zstate[z], zstate'[z]>> \in SessionEdges
             \/ zstate'[z] = "idle" /\ ~FinalMeasurement(z)]_vars

\* Zone a stands before zone b in queue q
Before(a, b, q) ==
    \E i, j \in 1..Len(q) : i < j /\ q[i] = a /\ q[j] = b

\* Zone b waits in the queue after its soak has ended; as long as nothing has been
\* started or stopped since both zones soaked, only handle_soak_end can have put
\* a soaking zone in the queue
SoakEndedWaiting(b) ==
    /\ starts = 0 /\ stop_calls = 0 /\ ~shutdown_requested
    /\ zstate[b] = "soaking"
    /\ b \notin soaking_zones
    /\ InSeq(b, zone_queue)

\* C29 as stated: the start order is FIFO. evaluate_zone puts a zone at the back
\* of the queue, process_queue starts the first zone of the queue that it does not
\* drop, and a zone whose soak ends is put behind the zones whose soak ended
\* before and that still wait
FifoStartOrder ==
    [][/\ zone_queue' # zone_queue =>
            \A z \in Zones, inp \in EvalInputs :
               ProcessZone(z, inp) => zone_queue' = Append(zone_queue, z)
       /\ StartStep =>
            \E i \in 1..Len(zone_queue) :
               /\ zone_queue[i] = runner'.zone
               /\ zone_queue' = SubSeq(zone_queue, i + 1, Len(zone_queue))
       /\ \A a \in Zones :
            (Pending("soak", a) # {} /\ ~shutdown_requested /\ SoakEnd(a)) =>
               \A b \in Zones \ {a} :
                  SoakEndedWaiting(b) => Before(b, a, zone_queue')]_vars

\* Every zone reads a moisture at or below min_moisture in warm, dry weather
DryReadings ==
    [z \in Zones |-> [m |-> 15, temp |-> Warm, rain |-> FALSE, freeze |-> FALSE]]

\* C30 as stated: once a full stop has been made and has returned, whenever the
\* schedule window is open with the system enabled, nothing active, queued or
\* soaking and every zone idle, a check_schedule that finds the zones at or below
\* min_moisture queues them, so they can be watered without a disable/enable
NewWindowQueuesDryZones ==
    (/\ stop_calls > 0
     /\ \A c \in Callers : stops[c].pc = "none"
     /\ schedule = "on" /\ system_enabled /\ ~shutdown_requested
     /\ active_zone = None /\ zone_queue = <<>> /\ soaking_zones = {}
     /\ \A z \in Zones : zstate[z] = "idle")
    => EvaluateAll(zone_queue, pq_tasks, 1, DryReadings, is_in_schedule).q # <<>>

\* The end of the window is known: next_state_change holds a datetime, or
\* end_time holds a datetime or a time of day
EndKnown(next_state_change, end_time) ==
    next_state_change.kind = "at" \/ end_time.kind \in {"at", "clock"}

\* The minutes from now to the known end of the window
MinutesToEnd(next_state_change, end_time) ==
    IF next_state_change.kind = "at" THEN next_state_change.minutes ELSE end_time.minutes

\* C31 as stated: get_schedule_remaining_time returns 0 when a schedule is
\* configured and its state is not on, None when the end of the window is not
\* known, and otherwise the minutes to the known end, never negative
RemainingTimeAsSpecified ==
    call.op = "remaining" =>
       LET configured == call.args[1]
           state == call.args[2]
           next_state_change == call.args[3]
           end_time == call.args[4]
       IN IF configured /\ state # "on" THEN call.result = 0
          ELSE IF ~configured \/ ~EndKnown(next_state_change, end_time)
               THEN call.result = NoRemaining
          ELSE call.result = Max(0, MinutesToEnd(next_state_change, end_time))

\* The part of the gap from pre to target that was closed, as a number of
\* percent between 0 and target - pre
GapClosed(pre, final, target) ==
    IF final < pre THEN 0 ELSE IF final > target THEN target - pre ELSE final - pre

\* C32 as stated: at the final measurement the deficit becomes 0 when the final
\* moisture is at or above the target, and otherwise
\* old * (1 - clamp((final - pre) / (target - pre), 0, 1)); compared after
\* multiplying both sides by target - pre, for a zone that started below its target
DeficitReducedByGapClosed ==
    call.op = "final_deficit" =>
       LET old == call.args[1]
           pre == call.args[2]
           final == call.args[3]
           target == call.args[4]
       IN IF final >= target THEN call.result = 0
          ELSE pre < target =>
                 call.result * (target - pre)
                    = old * ((target - pre) - GapClosed(pre, final, target))

\* C33: the efficiency factor stays within [0.5, 1.0] over any sequence of final
\* measurements and statistics resets; a measurement with ratio > 1 never lowers
\* it, one with ratio < 0.8 never raises it, and none moves it by more than 0.05
EfficiencyFactorBounded ==
    /\ efficiency_factor >= MIN_EFFICIENCY_FACTOR
    /\ efficiency_factor <= MAX_EFFICIENCY_FACTOR
    /\ call.op = "efficiency" =>
         LET old_factor == call.args[1]
             increase == call.args[2]
             expected == call.args[3]
         IN /\ increase > expected => call.result >= old_factor
            /\ 10 * increase < 8 * expected => call.result <= old_factor
            /\ call.result - old_factor <= EFFICIENCY_ADJUST_STEP
            /\ old_factor - call.result <= EFFICIENCY_ADJUST_STEP

\* A factor already at the lower bound met a session that reached 0.8 of the
\* expected increase, and stayed at the bound
NudgedAtLowerBound ==
    /\ call.op = "efficiency"
    /\ call.args[1] = MIN_EFFICIENCY_FACTOR
    /\ 10 * call.args[2] = 8 * call.args[3]
    /\ call.result = MIN_EFFICIENCY_FACTOR

\* The queue can be served: a zone waits, no zone waters, the window is open and
\* nothing has disabled, stopped or shut down the system
QueueServable ==
    /\ zone_queue # <<>>
    /\ \A z \in Zones : zstate[z] # "watering"
    /\ schedule \in {"none", "on"}
    /\ system_enabled /\ ~stop_requested /\ ~shutdown_requested

\* C34 as stated: whenever the queue can be served, eventually a queued zone
\* starts watering or the queue becomes empty (or no further start is possible),
\* with no stop and no disable/enable in between
QueueMakesProgress ==
    QueueServable
       ~> ((\E z \in Zones : zstate[z] = "watering") \/ zone_queue = <<>>
             \/ starts = MaxStarts)

\* C35 as stated: a zone that has left idle eventually returns to idle; no zone
\* stays in watering, soaking or measuring for ever
SessionTerminates ==
    \A z \in Zones : (zstate[z] # "idle") ~> (zstate[z] = "idle")

\* No handler is suspended in an await: process_queue, handle_cycle_end and
\* stop_all_watering are all at rest
NoHandlerRunning ==
    /\ runner.pc = "none"
    /\ \A z \in Zones : ce[z] = "none"
    /\ \A c \in Callers : stops[c].pc = "none"

\* C36 as stated: while no handler is in the middle of a step, active_zone is z
\* exactly when zone z is watering, and z is in the soaking set exactly when its
\* state is soaking and its soak-end timer is pending
BookkeepingConsistent ==
    NoHandlerRunning =>
      \A z \in Zones :
         /\ (active_zone = z) <=> (zstate[z] = "watering")
         /\ (z \in soaking_zones) <=> (zstate[z] = "soaking" /\ Pending("soak", z) # {})

\* disable_system has completed and enable_system has not been called since
Disabled == ~system_enabled /\ stops["disable"].pc = "none"

\* An on-command goes out to zone z's switch
OnCommand(z) == valve[z] # "on" /\ valve'[z] = "on"

\* C37 as stated: from the completion of disable_system until enable_system is
\* called no zone is in state watering and no on-command is issued
DisabledMeansNoWatering ==
    /\ [](Disabled => \A z \in Zones : zstate[z] # "watering")
    /\ [][Disabled => \A z \in Zones : ~OnCommand(z)]_vars

\* The minutes granted in all: the sum over the zones of cycles * cycle_time
AllocatedMinutes(cycles, cycle_time) ==
    SumOver([i \in 1..Len(cycles) |-> cycles[i] * cycle_time], 1, Len(cycles))

\* C38 as stated: when the time required in all exceeds available_minutes, the
\* time distribute_watering_time grants in all never exceeds available_minutes
AllocationWithinAvailable ==
    call.op = "distribute" =>
       LET zones_data == call.args[1]
           available_minutes == call.args[2]
           cycle_time == call.args[3]
           total == TotalRequired(zones_data)
       IN total[1] > available_minutes * total[2]
            => AllocatedMinutes(call.result, cycle_time) <= available_minutes

\* The switches commanded on and not commanded off since
CommandedOn == {z \in Zones : ctl.commanded[z] = "on"}

\* C39 as stated: in execute_watering at most one switch is commanded on at any
\* time, and once the function has been left, on whatever path, every switch it
\* commanded on has been commanded off
SwitchesPaired ==
    /\ Cardinality(CommandedOn) <= 1
    /\ ctl.pc = "idle" => CommandedOn = {}

\* cancel() has taken effect on the sequence that is running
Cancelling == ctl.is_running /\ ctl.cancel_requested

\* C40 (the task that runs the sequence is not itself cancelled from outside):
\* once cancel() is called while a sequence runs no further cycle is
\* started, every scheduled zone is sent an off-command before the sequence
\* ends, and is_running eventually becomes false; cancel() while nothing runs
\* changes nothing, and a sequence started later begins with cancel_requested
\* false and leaves cycles undone only if cancel() is called during it or a
\* service call raises
CancelStopsSequence ==
    /\ [][Cancelling => \A z \in Zones :
            ~(ctl.commanded[z] # "on" /\ ctl'.commanded[z] = "on")]_vars
    /\ [][Cancelling /\ ~ctl'.is_running => ctl'.off_sent = Scheduled(ctl)]_vars
    /\ Cancelling ~> ~ctl.is_running
    /\ [][Cancel /\ ~ctl.is_running => ctl' = ctl]_vars
    /\ [][~ctl.is_running /\ ctl'.is_running => ~ctl'.cancel_requested]_vars
    /\ [][ctl.is_running /\ ~ctl'.is_running /\ EntriesLeft(ctl') # {}
            => ctl.cancel_requested \/ ctl'.failures > ctl.failures]_vars

\* A sequence for both zones ended after cancel() with cycles left undone and an
\* off-command sent to both zones
CancelledSequenceEnded ==
    /\ ~ctl.is_running /\ ctl.cancel_requested /\ ctl.pc = "idle"
    /\ Scheduled(ctl) = Zones /\ ctl.off_sent = Zones
    /\ EntriesLeft(ctl) # {}
    /\ ctl.failures = 0

====
